---- MODULE Spec2Model ----
(***************************************************************************)
(* Model of ckb-stratum-proxy: the pool proxy (proxy.js v1.1) and the solo *)
(* proxy (solo-proxy.js).  Both are single-threaded event loops; every     *)
(* action below is one callback run to completion.                         *)
(*                                                                         *)
(* Representation choices                                                  *)
(*  - a hex string is the sequence of its bytes (two hex digits each);     *)
(*  - a BigInt is the sequence of its base-256 digits, most significant    *)
(*    first (the big-endian hex the code hands to BigInt('0x' + beHex));   *)
(*  - a difficulty (a JS number) is held in units of 1/DiffScale;          *)
(*  - times are in seconds (Date.now() / 1000);                            *)
(*  - a JSON null request id is NullId; a null difficulty is NullDiff;     *)
(*    a null / empty string or array is <<>>.                              *)
(***************************************************************************)
EXTENDS Integers, Sequences, FiniteSets, TLC

(***************************************************************************)
(* Bounds of the model (not program constants).                            *)
(***************************************************************************)
MaxMiners == 2
MaxLines == 2
MaxPoolMsgs == 2
MaxCloses == 1
MaxDrops == 1
MaxPolls == 1
MaxSoloMiners == 1
MaxTicks == 1
TickSec == 60
MaxBackoffCloses == 8
MaxAllocIds == 257
MaxAllocConcurrent == 2
MaxPollPolls == 2
MaxVardiffLines == 5
MaxVardiffTicks == 5
VardiffTickSec == 15
MaxVardiffMiners == 1
MaxVardiffPoolMsgs == 1
MaxLinesMiners == 2
MaxLinesLines == 3
MaxLinesPoolMsgs == 2
MaxInputLen == 64
MaxRelayMiners == 2
MaxRelayLines == 2
MaxRelayPoolMsgs == 3
MaxShakeMiners == 2
MaxShakeLines == 3
MaxShakePoolMsgs == 2
MaxShakeCloses == 1
MaxStreamLen == 4

(***************************************************************************)
(* Program constants.                                                      *)
(***************************************************************************)
NullId == 0
NullDiff == 0 - 1
ByteBase == 256
MicroScale == 1000000
\* a difficulty is held in tenths of the unit Math.round(diff * 1_000_000) keeps
DiffScale == 10 * MicroScale
InitialReconnectDelay == 2000
MaxReconnectDelay == 60000
FirstUpstreamRequestId == 100
DefaultEn2Size == 8
TargetBytes == 32
NonceBytes == 16
LowDiffCode == 23
NoJobCode == 20
HexRadix == 16
\* the prefix '0x' of a hex string: a value that is no byte
HexPrefix == ByteBase + 1
NaN == 0 - 1
NullHash == 0 - 1

(***************************************************************************)
(* Sequence helpers.                                                       *)
(***************************************************************************)
Min(a, b) == IF a < b THEN a ELSE b

Max(a, b) == IF a > b THEN a ELSE b

Reverse(s) == [i \in 1..Len(s) |-> s[Len(s) + 1 - i]]

Zeros(n) == [i \in 1..n |-> 0]

Last(s) == s[Len(s)]

RemoveAt(s, k) == SubSeq(s, 1, k - 1) \o SubSeq(s, k + 1, Len(s))

\* String.prototype.padStart on a hex string, in whole bytes.
padStart(s, n) == IF Len(s) >= n THEN s ELSE Zeros(n - Len(s)) \o s

(***************************************************************************)
(* BigInt arithmetic on base-256 digit sequences (most significant first). *)
(* Multipliers and divisors are below 2^23 so that every intermediate      *)
(* value fits a 32-bit integer.                                            *)
(***************************************************************************)
RECURSIVE StripZeros(_)
StripZeros(n) == IF n # <<>> /\ Head(n) = 0 THEN StripZeros(Tail(n)) ELSE n

BigIsZero(n) == StripZeros(n) = <<>>

RECURSIVE MulDigits(_, _, _)
MulDigits(le, k, carry) ==
  IF le = <<>>
    THEN IF carry = 0 THEN <<>>
         ELSE <<carry % ByteBase>> \o MulDigits(<<>>, k, carry \div ByteBase)
    ELSE LET v == Head(le) * k + carry
         IN  <<v % ByteBase>> \o MulDigits(Tail(le), k, v \div ByteBase)

\* n * k
BigMul(n, k) == Reverse(MulDigits(Reverse(n), k, 0))

RECURSIVE DivDigits(_, _, _)
DivDigits(be, d, rem) ==
  IF be = <<>> THEN <<>>
  ELSE LET v == rem * ByteBase + Head(be)
       IN  <<v \div d>> \o DivDigits(Tail(be), d, v % d)

\* n / d, truncating (BigInt division)
BigDiv(n, d) == DivDigits(n, d, 0)

\* n > MAX256 / MASK256 = 2^256 - 1
BigExceeds256(n) == Len(StripZeros(n)) > TargetBytes

\* Math.round(x * 1_000_000) for a difficulty x
MathRoundMicro(x) ==
  LET unit == DiffScale \div MicroScale IN (x + unit \div 2) \div unit

\* DIFF1_TARGET = 1n << 224n
DIFF1_TARGET == <<1>> \o Zeros(28)

\* The value a throwing call leaves in place of a hex string (BigInt division by zero).
RangeError == <<ByteBase>>

\* pool proxy: hex LE string -> BigInt
hexLEToBigInt(hex) ==
  IF hex = <<>> \/ Len(hex) # TargetBytes THEN <<>> ELSE Reverse(hex)

\* BigInt -> hex LE string (64 chars)
bigIntToHexLE(n) ==
  IF BigIsZero(n) THEN Zeros(TargetBytes)
  ELSE IF BigExceeds256(n) THEN [i \in 1..TargetBytes |-> ByteBase - 1]
  ELSE Reverse(padStart(StripZeros(n), TargetBytes))

\* solo proxy: local share target for a difficulty
diffToTargetLE(diff) ==
  IF diff <= 0 THEN bigIntToHexLE(DIFF1_TARGET)
  ELSE LET diffBig == MathRoundMicro(diff)
       IN  IF diffBig = 0 THEN RangeError
           ELSE bigIntToHexLE(BigDiv(BigMul(DIFF1_TARGET, MicroScale), diffBig))

\* solo proxy: compact target -> 64-char LE hex
compactToTargetLE(compact) ==
  LET exp == compact \div 16777216
      man == compact % 16777216
      manBE == <<man \div 65536, (man \div ByteBase) % ByteBase, man % ByteBase>>
      n == IF exp <= 3 THEN SubSeq(manBE, 1, exp) ELSE manBE \o Zeros(exp - 3)
  IN  IF BigExceeds256(n) THEN [i \in 1..TargetBytes |-> ByteBase - 1]
      ELSE Reverse(padStart(StripZeros(n), TargetBytes))

RECURSIVE meetsFrom(_, _, _)
meetsFrom(hashBuf, target, i) ==
  IF i < 1 THEN TRUE
  ELSE IF i > Len(target) THEN meetsFrom(hashBuf, target, i - 1)
  ELSE IF hashBuf[i] < target[i] THEN TRUE
  ELSE IF hashBuf[i] > target[i] THEN FALSE
  ELSE meetsFrom(hashBuf, target, i - 1)

RECURSIVE meetsUpFrom(_, _, _)
meetsUpFrom(hashBuf, target, i) ==
  IF i > TargetBytes THEN TRUE
  ELSE IF hashBuf[i] < target[i] THEN TRUE
  ELSE IF hashBuf[i] > target[i] THEN FALSE
  ELSE meetsUpFrom(hashBuf, target, i + 1)

\* variant: byte 0 compared first (a big-endian comparison)
meetsTarget_BigEndian(hashBuf, targetHex) == meetsUpFrom(hashBuf, targetHex, 1)

\* eaglesong.js: hash <= target, both 256-bit little-endian
meetsTarget(hashBuf, targetHex) == meetsFrom(hashBuf, targetHex, TargetBytes)

\* variant: hash < target
meetsTargetLE_Strict(hashBuf, targetHex) ==
  hashBuf # targetHex /\ meetsFrom(hashBuf, targetHex, TargetBytes)

\* solo-proxy.js: the same comparison
meetsTargetLE(hashBuf, targetHex) == meetsFrom(hashBuf, targetHex, TargetBytes)

(***************************************************************************)
(* Eaglesong (eaglesong.js).  A 32-bit word is the sequence of its 32      *)
(* bits, least significant first; the sponge state is 16 words.            *)
(***************************************************************************)
WordBits == 32
StateWords == 16
Rounds == 43
RATE_BYTES == 32
RATE_WORDS == 8
DELIMITER == 6

\* COEFFICIENTS: for each of the 16 state words the three rotation amounts
COEFFICIENTS ==
  <<
     0, 2, 4, 0, 13, 22, 0, 4, 19, 0, 3, 14,
     0, 27, 31, 0, 3, 8, 0, 17, 26, 0, 3, 12,
     0, 18, 22, 0, 12, 18, 0, 4, 7, 0, 4, 31,
     0, 12, 27, 0, 7, 17, 0, 7, 8, 0, 1, 13
  >>

\* INJECTION_CONSTANTS: 43 * 16 words of 32 bits, each written as its upper
\* and its lower 16 bits
INJECTION_CONSTANTS ==
  <<
     <<28318, 16558>>, <<29074, 31746>>, <<39443, 54193>>, <<56044, 12973>>,
     <<15753, 20943>>, <<57801, 65178>>, <<47110, 46412>>, <<44219, 62487>>,
     <<54114, 11067>>, <<41090, 30250>>, <<40668, 61888>>, <<43450, 55927>>,
     <<32657, 58476>>, <<51983, 28239>>, <<9821, 37441>>, <<47037, 60080>>,
     <<25184, 51686>>, <<65360, 56618>>, <<36918, 43633>>, <<52758, 6265>>,
     <<53552, 31967>>, <<35300, 22239>>, <<63537, 13282>>, <<26101, 23613>>,
     <<38023, 6913>>, <<46546, 1229>>, <<22586, 12900>>, <<24086, 22871>>,
     <<19645, 43364>>, <<26463, 51783>>, <<62627, 830>>, <<10817, 29474>>,
     <<15201, 17199>>, <<32597, 13042>>, <<46601, 38715>>, <<6777, 21049>>,
     <<12724, 30665>>, <<53908, 40232>>, <<30870, 38674>>, <<3768, 31598>>,
     <<32273, 53805>>, <<52462, 35005>>, <<61136, 32440>>, <<58710, 14977>>,
     <<59339, 27599>>, <<9694, 38206>>, <<19717, 25914>>, <<2947, 5463>>,
     <<38073, 52599>>, <<5104, 5497>>, <<31051, 19018>>, <<26599, 51164>>,
     <<50262, 55508>>, <<22888, 40091>>, <<26244, 22231>>, <<8914, 41697>>,
     <<14515, 43048>>, <<789, 44092>>, <<17293, 26654>>, <<43889, 2501>>,
     <<38894, 6568>>, <<56838, 11054>>, <<11382, 50299>>, <<132, 17775>>,
     <<37007, 4051>>, <<42566, 21791>>, <<16002, 26405>>, <<54561, 30862>>,
     <<40705, 49840>>, <<37656, 3292>>, <<37610, 7672>>, <<17178, 39598>>,
     <<31790, 41814>>, <<55859, 44291>>, <<18066, 26771>>, <<26301, 59351>>,
     <<46337, 52341>>, <<8046, 35393>>, <<26706, 20724>>, <<15281, 62232>>,
     <<44835, 35844>>, <<38734, 53996>>, <<23317, 40521>>, <<54566, 63679>>,
     <<4616, 22054>>, <<15908, 12969>>, <<27602, 3144>>, <<7965, 23002>>,
     <<6315, 4200>>, <<33016, 15608>>, <<11404, 4544>>, <<32084, 32821>>,
     <<4086, 30147>>, <<65233, 24767>>, <<29883, 47908>>, <<55694, 107>>,
     <<57002, 18411>>, <<1522, 6046>>, <<17275, 2929>>, <<42953, 24463>>,
     <<169, 40251>>, <<16323, 50244>>, <<29288, 28558>>, <<253, 425>>,
     <<57052, 1927>>, <<50863, 30246>>, <<28690, 65142>>, <<62117, 63438>>,
     <<39547, 11994>>, <<24151, 64754>>, <<19872, 54445>>, <<23651, 45397>>,
     <<13329, 29557>>, <<54291, 19473>>, <<11943, 29749>>, <<21112, 46814>>,
     <<43858, 11340>>, <<48271, 50946>>, <<51530, 2532>>, <<60345, 15006>>,
     <<37356, 46686>>, <<19538, 60614>>, <<34563, 47954>>, <<52013, 24746>>,
     <<12448, 21386>>, <<5396, 61707>>, <<5503, 25385>>, <<13353, 56381>>,
     <<23991, 16050>>, <<42913, 43369>>, <<29318, 48420>>, <<3574, 34846>>,
     <<14213, 47711>>, <<52484, 25146>>, <<629, 33136>>, <<55335, 62806>>,
     <<39385, 20881>>, <<33861, 32433>>, <<22695, 64290>>, <<53910, 31839>>,
     <<20236, 13302>>, <<18946, 2458>>, <<57488, 18465>>, <<37906, 16438>>,
     <<18794, 795>>, <<30731, 27076>>, <<53018, 18727>>, <<34721, 6584>>,
     <<52730, 62712>>, <<19705, 52495>>, <<10185, 27268>>, <<27921, 4478>>,
     <<32652, 63559>>, <<29902, 60901>>, <<51337, 1510>>, <<24609, 22593>>,
     <<29042, 34650>>, <<29550, 39226>>, <<266, 42300>>, <<17365, 15403>>,
     <<61657, 6803>>, <<3480, 15190>>, <<63510, 26172>>, <<58833, 13155>>,
     <<2657, 29564>>, <<2517, 4432>>, <<33701, 44079>>, <<16008, 18693>>,
     <<31489, 44725>>, <<24586, 28327>>, <<46951, 36731>>, <<29363, 35191>>,
     <<1664, 6386>>, <<52842, 58459>>, <<10520, 35496>>, <<58784, 45545>>,
     <<49228, 11142>>, <<35793, 19829>>, <<25735, 33267>>, <<56238, 7690>>,
     <<56781, 55470>>, <<43853, 33187>>, <<17515, 43706>>, <<7360, 49565>>,
     <<6078, 20368>>, <<33472, 58973>>, <<26479, 40085>>, <<23664, 36274>>,
     <<28628, 51303>>, <<42256, 28400>>, <<6621, 58525>>, <<30744, 12181>>,
     <<53385, 52609>>, <<41774, 39166>>, <<48688, 27778>>, <<27864, 15756>>,
     <<895, 7134>>, <<2837, 29229>>, <<60892, 7714>>, <<37831, 25945>>,
     <<35375, 22299>>, <<37580, 33204>>, <<539, 29815>>, <<26450, 14596>>,
     <<51549, 48332>>, <<44055, 61085>>, <<37966, 18108>>, <<1921, 34430>>,
     <<51284, 56733>>, <<9954, 49932>>, <<34188, 1046>>, <<27961, 30472>>,
     <<60386, 40024>>, <<51212, 60806>>, <<54422, 46251>>, <<48709, 59125>>,
     <<4306, 18182>>, <<44280, 6266>>, <<38645, 9163>>, <<8743, 57667>>,
     <<30915, 25956>>, <<17987, 44482>>, <<18217, 55674>>, <<53241, 15885>>,
     <<9544, 19389>>, <<37318, 31118>>, <<38391, 29684>>, <<17440, 18037>>,
     <<11994, 22458>>, <<1747, 5103>>, <<61098, 17510>>, <<11770, 30000>>,
     <<43183, 3227>>, <<14833, 21342>>, <<3266, 47037>>, <<14503, 27662>>,
     <<20289, 1821>>, <<52655, 9333>>, <<18854, 61432>>, <<354, 5960>>,
     <<14059, 44203>>, <<48493, 39465>>, <<17617, 52581>>, <<16513, 24061>>,
     <<22010, 23066>>, <<34764, 59881>>, <<44629, 39749>>, <<55147, 19494>>,
     <<25469, 24749>>, <<56873, 62969>>, <<38729, 7355>>, <<64309, 64>>,
     <<65511, 63895>>, <<8220, 40397>>, <<58899, 8425>>, <<43273, 34723>>,
     <<57930, 64131>>, <<25025, 59132>>, <<52359, 65378>>, <<61897, 55546>>,
     <<20432, 17734>>, <<37100, 51054>>, <<18148, 22201>>, <<12381, 52920>>,
     <<63015, 59020>>, <<11560, 26645>>, <<50949, 48125>>, <<4123, 28147>>,
     <<35117, 44642>>, <<54711, 64324>>, <<59933, 23700>>, <<21298, 58315>>,
     <<63574, 63626>>, <<45889, 45289>>, <<10304, 36253>>, <<21537, 48151>>,
     <<60314, 63932>>, <<24611, 29125>>, <<26520, 23185>>, <<55156, 36991>>,
     <<31821, 27005>>, <<37744, 45240>>, <<28661, 52923>>, <<32070, 22340>>,
     <<26444, 60096>>, <<60049, 764>>, <<3561, 18308>>, <<51091, 56937>>,
     <<65113, 39857>>, <<50861, 38191>>, <<28012, 43459>>, <<37516, 16273>>,
     <<63746, 12037>>, <<9377, 25820>>, <<58857, 36051>>, <<30281, 61403>>,
     <<28147, 48347>>, <<23838, 40945>>, <<6133, 53264>>, <<57960, 28321>>,
     <<28332, 30718>>, <<31669, 50565>>, <<35033, 3259>>, <<6248, 37219>>,
     <<26569, 61349>>, <<49335, 28059>>, <<38414, 64427>>, <<48519, 10247>>,
     <<28916, 50292>>, <<22210, 40224>>, <<53588, 7445>>, <<34835, 28723>>,
     <<58352, 11070>>, <<46809, 45709>>, <<21408, 30650>>, <<61148, 53918>>,
     <<42250, 27677>>, <<4802, 32798>>, <<21178, 13147>>, <<13720, 17940>>,
     <<57945, 39592>>, <<44948, 60701>>, <<55565, 18279>>, <<8236, 32007>>,
     <<30654, 50420>>, <<64113, 48256>>, <<64604, 35702>>, <<36111, 48124>>,
     <<55862, 28102>>, <<35634, 41159>>, <<6966, 63484>>, <<26178, 56508>>,
     <<28647, 59172>>, <<35679, 42882>>, <<50210, 29700>>, <<14973, 7591>>,
     <<20862, 54872>>, <<35352, 57197>>, <<15964, 39715>>, <<8125, 20975>>,
     <<5232, 24605>>, <<13312, 14492>>, <<26475, 1629>>, <<34916, 44416>>,
     <<60015, 6812>>, <<11700, 34017>>, <<24711, 34288>>, <<36307, 33967>>,
     <<27090, 26265>>, <<16540, 19990>>, <<30713, 39018>>, <<32585, 4710>>,
     <<34878, 42703>>, <<60064, 24690>>, <<64046, 23989>>, <<13605, 38068>>,
     <<37206, 48009>>, <<41723, 48123>>, <<44089, 35271>>, <<28196, 8881>>,
     <<22559, 13664>>, <<4105, 43445>>, <<32346, 55757>>, <<43516, 2670>>,
     <<17381, 39310>>, <<32647, 30969>>, <<61496, 63713>>, <<21525, 49896>>,
     <<25753, 46897>>, <<47139, 35246>>, <<1492, 55321>>, <<3846, 17422>>,
     <<61811, 23200>>, <<39012, 12526>>, <<18412, 38188>>, <<48916, 40133>>,
     <<46027, 11446>>, <<16193, 59586>>, <<10010, 50459>>, <<18604, 24045>>,
     <<63338, 1129>>, <<29051, 47693>>, <<20316, 37078>>, <<15220, 63318>>,
     <<6180, 4362>>, <<42237, 17379>>, <<7856, 20604>>, <<43319, 23560>>,
     <<5500, 22951>>, <<3245, 36689>>, <<54880, 12704>>, <<43957, 13375>>,
     <<58675, 64067>>, <<6550, 58043>>, <<55189, 14961>>, <<53842, 39828>>,
     <<22768, 64007>>, <<19611, 6263>>, <<1406, 39181>>, <<35838, 6596>>,
     <<43234, 49353>>, <<39420, 43738>>, <<27090, 43722>>, <<56348, 17986>>,
     <<62674, 8967>>, <<32738, 32396>>, <<4966, 43527>>, <<5524, 58935>>,
     <<52752, 26303>>, <<56210, 9554>>, <<39216, 46378>>, <<44714, 39486>>,
     <<12799, 32436>>, <<24095, 37978>>, <<5386, 50332>>, <<3277, 44077>>,
     <<55464, 41495>>, <<47150, 42725>>, <<54951, 18009>>, <<26551, 58342>>,
     <<33646, 61258>>, <<46841, 116>>, <<32675, 59979>>, <<51971, 33059>>,
     <<48902, 40789>>, <<8104, 16324>>, <<55019, 56099>>, <<5872, 41271>>,
     <<6567, 4365>>, <<24563, 46431>>, <<64355, 14440>>, <<46182, 63557>>,
     <<48352, 49560>>, <<34880, 17046>>, <<56765, 55435>>, <<32709, 9542>>,
     <<25509, 21496>>, <<42792, 16474>>, <<14218, 11214>>, <<26722, 58736>>,
     <<61367, 32381>>, <<50705, 25182>>, <<12881, 23573>>, <<27012, 46949>>,
     <<59456, 22902>>, <<39843, 34557>>, <<54510, 54489>>, <<63742, 777>>,
     <<3301, 17921>>, <<47864, 31170>>, <<55378, 16471>>, <<7564, 7546>>,
     <<29376, 41897>>, <<23071, 64478>>, <<33523, 14917>>, <<20803, 62534>>,
     <<10695, 57730>>, <<58678, 49967>>, <<23151, 9307>>, <<17447, 10971>>,
     <<52080, 7580>>, <<63329, 14316>>, <<2113, 61765>>, <<59140, 11980>>,
     <<61735, 32215>>, <<29788, 63788>>, <<43262, 26110>>, <<54242, 55247>>,
     <<21701, 5103>>, <<24697, 48173>>, <<46691, 14000>>, <<4126, 14395>>,
     <<48343, 22355>>, <<9662, 9098>>, <<22182, 61630>>, <<61183, 52247>>,
     <<24227, 7997>>, <<2791, 29429>>, <<63341, 58334>>, <<7102, 52653>>,
     <<51472, 32067>>, <<63459, 36302>>, <<24963, 22733>>, <<23683, 16132>>,
     <<63127, 22790>>, <<56897, 30693>>, <<26579, 5340>>, <<46198, 3902>>,
     <<22222, 22664>>, <<3715, 17832>>, <<49142, 45503>>, <<30943, 45330>>,
     <<61808, 39966>>, <<31672, 60811>>, <<36900, 697>>, <<55974, 19168>>,
     <<18103, 7561>>, <<32494, 863>>, <<48695, 25865>>, <<39268, 36666>>,
     <<2147, 59935>>, <<18861, 34951>>, <<31165, 60613>>, <<15376, 46440>>,
     <<24366, 19374>>, <<1263, 8363>>, <<29432, 52859>>, <<21022, 7870>>,
     <<5202, 21813>>, <<11914, 63835>>, <<37012, 52477>>, <<48371, 26387>>,
     <<51001, 21487>>, <<54457, 5236>>, <<25940, 60461>>, <<58248, 23702>>,
     <<988, 29623>>, <<37654, 34985>>, <<52158, 61826>>, <<11127, 53193>>,
     <<25386, 12989>>, <<53777, 24012>>, <<6885, 21309>>, <<12904, 19987>>,
     <<19653, 40964>>, <<4914, 7134>>, <<25291, 54157>>, <<30776, 14907>>,
     <<53254, 34545>>, <<40800, 7911>>, <<32431, 9182>>, <<12560, 50322>>,
     <<39989, 4617>>, <<32440, 40274>>, <<27990, 28332>>, <<49903, 53798>>,
     <<13033, 64197>>, <<21026, 29300>>, <<2552, 18213>>, <<47312, 46597>>,
     <<29225, 7938>>, <<29109, 49995>>, <<15807, 52152>>, <<1184, 8803>>,
     <<21946, 22911>>, <<54500, 893>>, <<51219, 57790>>, <<65501, 61178>>,
     <<50112, 22771>>, <<34561, 3886>>, <<7676, 62815>>, <<50836, 61163>>,
     <<43456, 6772>>, <<39106, 64619>>, <<58750, 5160>>, <<56614, 23153>>,
     <<33643, 38253>>, <<32326, 43802>>, <<22581, 54593>>, <<20659, 9477>>,
     <<58944, 37180>>, <<47944, 24697>>, <<65097, 25187>>, <<4412, 23401>>,
     <<37837, 26144>>, <<24318, 33339>>, <<11621, 31552>>, <<46189, 64620>>,
     <<22385, 3177>>, <<65183, 44523>>, <<46584, 29322>>, <<58146, 16752>>,
     <<51752, 46929>>, <<64939, 44630>>, <<23217, 11324>>, <<42647, 50263>>,
     <<53903, 41655>>, <<1381, 31218>>, <<40921, 55312>>, <<58197, 29816>>,
     <<55437, 35243>>, <<42794, 37922>>, <<27975, 43984>>, <<16475, 52185>>,
     <<28547, 60335>>, <<5066, 60534>>, <<64747, 40674>>, <<11922, 11767>>,
     <<52888, 22239>>, <<49246, 37666>>, <<10098, 51284>>, <<46719, 10802>>,
     <<27930, 62093>>, <<14968, 53111>>, <<57332, 4580>>, <<25031, 19625>>,
     <<60811, 33838>>, <<29320, 2117>>, <<28293, 28805>>, <<50752, 18738>>,
     <<60983, 63164>>, <<10001, 28488>>, <<24222, 50266>>, <<36514, 42271>>,
     <<42327, 15799>>, <<42822, 53302>>, <<18539, 18280>>, <<23363, 36667>>,
     <<6341, 19036>>, <<25852, 61582>>, <<59795, 52673>>, <<13761, 60115>>,
     <<40416, 32231>>, <<12827, 33820>>, <<34626, 15454>>, <<1818, 41206>>,
     <<38446, 46939>>, <<47878, 48594>>, <<56539, 21347>>, <<14487, 21234>>,
     <<33753, 52360>>, <<53268, 44486>>, <<50961, 8635>>, <<9074, 63800>>,
     <<51967, 9808>>, <<25278, 35153>>, <<22236, 51967>>, <<44096, 33984>>,
     <<2417, 11925>>, <<7484, 10383>>, <<6920, 22340>>, <<57811, 53231>>,
     <<23706, 33070>>, <<26129, 64857>>, <<34276, 24644>>, <<6529, 55429>>,
     <<23116, 36927>>, <<17395, 3403>>, <<32029, 24603>>, <<56636, 13201>>,
     <<782, 50782>>, <<49448, 30925>>, <<29415, 38398>>, <<53447, 27325>>,
     <<7872, 34267>>, <<31931, 25082>>, <<37864, 56606>>, <<34178, 60166>>,
     <<29526, 12612>>, <<1181, 20094>>, <<24533, 44798>>, <<31620, 10752>>,
     <<30158, 54885>>, <<47922, 54360>>, <<20099, 48039>>, <<36629, 5407>>,
     <<30613, 41253>>, <<61572, 9301>>, <<18842, 63901>>, <<22108, 51194>>,
     <<41905, 10125>>, <<16167, 52852>>, <<38602, 1422>>, <<35401, 29763>>,
     <<42747, 36014>>, <<49429, 43553>>, <<5968, 18723>>, <<58515, 9218>>,
     <<44712, 34498>>, <<36535, 39669>>, <<60373, 60011>>, <<51096, 3387>>,
     <<28982, 37653>>, <<31086, 27238>>, <<14974, 50952>>, <<45137, 30152>>,
     <<57387, 29927>>, <<60215, 31443>>, <<27788, 8020>>, <<47488, 50036>>,
     <<22958, 57985>>, <<17564, 47001>>, <<57375, 22021>>, <<60686, 2142>>,
     <<51617, 41908>>, <<43716, 33201>>, <<51509, 50076>>, <<47064, 52863>>
  >>

\* the rows of the bit matrix: the state words (numbered from 0) that are
\* XORed into each word
BIT_MATRIX ==
  <<
     << 0, 4, 5, 6, 7, 12, 15 >>,
     << 0, 1, 4, 8, 12, 13, 15 >>,
     << 0, 1, 2, 4, 6, 7, 9, 12, 13, 14, 15 >>,
     << 0, 1, 2, 3, 4, 6, 8, 10, 12, 13, 14 >>,
     << 1, 2, 3, 4, 5, 7, 9, 11, 13, 14, 15 >>,
     << 0, 2, 3, 7, 8, 10, 14 >>,
     << 1, 3, 4, 8, 9, 11, 15 >>,
     << 0, 2, 6, 7, 9, 10, 15 >>,
     << 0, 1, 3, 4, 5, 6, 8, 10, 11, 12, 15 >>,
     << 0, 1, 2, 9, 11, 13, 15 >>,
     << 0, 1, 2, 3, 4, 5, 6, 7, 10, 14, 15 >>,
     << 0, 1, 2, 3, 8, 11, 12 >>,
     << 1, 2, 3, 4, 9, 12, 13 >>,
     << 2, 3, 4, 5, 10, 13, 14 >>,
     << 3, 4, 5, 6, 11, 14, 15 >>,
     << 0, 1, 2, 3, 5, 7, 8, 9, 10, 11, 15 >>
  >>

\* a sequence with its elements evaluated
Word(w) == SubSeq(w, 1, WordBits)

State(s) == SubSeq(s, 1, StateWords)

ZeroWord == Word([i \in 1..WordBits |-> 0])

\* bit k (from 0) of x, x below 2^16
BitOf(x, k) == (x \div (2 ^ k)) % 2

\* the Uint32 whose upper and lower halves are c[1] and c[2]
WordOfHalves(c) ==
  Word([i \in 1..WordBits |->
          IF i <= 16 THEN BitOf(c[2], i - 1) ELSE BitOf(c[1], i - 17)])

\* (x << r) | (x >>> (32 - r))
rotl32(x, r) == Word([i \in 1..WordBits |-> x[((i - 1 - r + 2 * WordBits) % WordBits) + 1]])

\* a ^ b
Xor(a, b) == Word([i \in 1..WordBits |-> (a[i] + b[i]) % 2])

RECURSIVE AddBits(_, _, _, _)
AddBits(a, b, i, carry) ==
  IF i > WordBits THEN << >>
  ELSE LET v == a[i] + b[i] + carry
       IN  << v % 2 >> \o AddBits(a, b, i + 1, v \div 2)

\* (a + b) >>> 0
Add32(a, b) == AddBits(a, b, 1, 0)

RECURSIVE SumOf(_, _, _, _)
\* the sum of bit i of the first n words of s that row names
SumOf(s, row, i, n) ==
  IF n = 0 THEN 0 ELSE s[row[n] + 1][i] + SumOf(s, row, i, n - 1)

\* Step 1: bit-matrix multiply; the XOR of bits is their sum modulo 2
bitMatrix(s) ==
  State([j \in 1..StateWords |->
           Word([i \in 1..WordBits |->
                   SumOf(s, BIT_MATRIX[j], i, Len(BIT_MATRIX[j])) % 2])])

\* Step 2: circulant multiplication
circulant(s) ==
  State([j \in 1..StateWords |->
           LET r1 == COEFFICIENTS[3 * (j - 1) + 2]
               r2 == COEFFICIENTS[3 * (j - 1) + 3]
           IN  Xor(Xor(s[j], rotl32(s[j], r1)), rotl32(s[j], r2))])

\* Step 3: constants injection
inject(s, round) ==
  State([j \in 1..StateWords |->
           Xor(s[j], WordOfHalves(INJECTION_CONSTANTS[round * StateWords + j]))])

\* variant: the second word of a pair is added to the first word as it was
\* before the step
ara_Unchained(s) ==
  State([j \in 1..StateWords |->
           LET p == IF j % 2 = 1 THEN j ELSE j - 1
               p1 == s[p + 1]
           IN  IF j = p THEN rotl32(Add32(s[p], p1), 8)
               ELSE Add32(s[p], rotl32(p1, 24))])

\* Step 4: add-rotate-add on pairs
ara(s) ==
  State([j \in 1..StateWords |->
           LET p == IF j % 2 = 1 THEN j ELSE j - 1
               p1 == s[p + 1]
               sp == rotl32(Add32(s[p], p1), 8)
           IN  IF j = p THEN sp ELSE Add32(sp, rotl32(p1, 24))])

RECURSIVE permuteFrom(_, _)
permuteFrom(s, round) ==
  IF round >= Rounds \/ Len(s) # StateWords THEN s
  ELSE permuteFrom(ara(inject(circulant(bitMatrix(s)), round)), round + 1)

permutation(s) == permuteFrom(s, 0)

RECURSIVE absorbBytes(_, _, _)
\* the bytes shifted into one word: input bytes and, at index inputLen, the
\* delimiter; nothing beyond it
absorbBytes(input, byteIdx, k) ==
  IF k >= 4 THEN << >>
  ELSE (IF byteIdx < Len(input) THEN << input[byteIdx + 1] >>
        ELSE IF byteIdx = Len(input) THEN << DELIMITER >>
        ELSE << >>) \o absorbBytes(input, byteIdx + 1, k + 1)

\* word = ((word << 8) ^ byte) >>> 0 for each of the bytes, from word = 0
WordOfBytes(bytes) ==
  Word([i \in 1..WordBits |->
          LET n == (i - 1) \div 8
          IN  IF n < Len(bytes) THEN BitOf(bytes[Len(bytes) - n], (i - 1) % 8) ELSE 0])

absorbBlock(state, input, blk) ==
  State([j \in 1..StateWords |->
           IF j <= RATE_WORDS
             THEN Xor(state[j],
                      WordOfBytes(absorbBytes(input, blk * RATE_BYTES + (j - 1) * 4, 0)))
             ELSE state[j]])

numBlocks(inputLen) == (((inputLen + 1) * 8) + 255) \div 256

\* the bytes one block shifts into the state, in order
RECURSIVE blockBytes(_, _, _)
blockBytes(input, blk, j) ==
  IF j >= RATE_WORDS THEN << >>
  ELSE absorbBytes(input, blk * RATE_BYTES + j * 4, 0) \o blockBytes(input, blk, j + 1)

\* the sponge before block blk is absorbed, with a record of what has been
\* done so far: the permutations run and the bytes absorbed
RECURSIVE absorbFrom(_, _)
absorbFrom(sponge, input) ==
  IF sponge.blk >= numBlocks(Len(input)) \/ Len(sponge.state) # StateWords THEN sponge
  ELSE absorbFrom([state |-> permutation(absorbBlock(sponge.state, input, sponge.blk)),
                   blk |-> sponge.blk + 1,
                   permutations |-> sponge.permutations + 1,
                   bytes |-> sponge.bytes \o blockBytes(input, sponge.blk, 0)], input)

absorb(input) ==
  absorbFrom([state |-> State([j \in 1..StateWords |-> ZeroWord]), blk |-> 0,
              permutations |-> 0, bytes |-> << >>], input)

\* out[j * 4 + k] = (state[j] >>> (8 * k)) & 0xff
squeeze(state) ==
  [n \in 1..(RATE_WORDS * 4) |->
     LET w == state[((n - 1) \div 4) + 1]
         k == (n - 1) % 4
     IN
         w[8*k+1] + 2 * w[8*k+2] + 4 * w[8*k+3] + 8 * w[8*k+4] + 16 * w[8*k+5]
           + 32 * w[8*k+6] + 64 * w[8*k+7] + 128 * w[8*k+8]]

eaglesong(input) == squeeze(absorb(input).state)

(***************************************************************************)
(* The PoW hash of a share.  Eaglesong is a fixed function of the 48-byte  *)
(* input pow_hash || nonce; the session layer only compares its output     *)
(* with targets, so the model lets it range over representative 256-bit    *)
(* values (little-endian bytes): 2^224, 2^224 + 1, 2^240 and 2^255.        *)
(***************************************************************************)
HashValues ==
  << [i \in 1..TargetBytes |-> IF i = 29 THEN 1 ELSE 0],
     [i \in 1..TargetBytes |-> IF i = 29 \/ i = 1 THEN 1 ELSE 0],
     [i \in 1..TargetBytes |-> IF i = 31 THEN 1 ELSE 0],
     [i \in 1..TargetBytes |-> IF i = 32 THEN 128 ELSE 0] >>

\* eaglesong(pow_hash || nonce): pow_hash is an abstract hash value (an
\* integer), nonce the 16 nonce bytes
ShareHash(powHash, noncePadded) ==
  HashValues[((powHash + noncePadded[NonceBytes]) % Len(HashValues)) + 1]

(***************************************************************************)
(* JSON values.                                                            *)
(***************************************************************************)
JTrue == <<"true">>

JFalse == <<"false">>

JNull == <<"null">>

JArray(items) == <<"array">> \o items

\* a response line { id, result, error }
Reply(id, result, error) ==
  [id |-> id, method |-> "", params |-> <<>>, result |-> result, error |-> error]

\* a notification line { id: null, method, params }
Notification(method, params) ==
  [id |-> NullId, method |-> method, params |-> params, result |-> JNull, error |-> JNull]

(***************************************************************************)
(* Configuration (config.json) of the modelled deployment.                 *)
(***************************************************************************)
UPSTREAM_USER == "ckb1pool.rig"

UPSTREAM_PASS == "x"

\* VARDIFF (both proxies): seconds, percent, difficulties in 1/DiffScale
VARDIFF_targetShareSec == 30
VARDIFF_retargetSec == 60
VARDIFF_variancePercent == 30
VARDIFF_minDiff == 10000
VARDIFF_maxDiff == 40000000
\* pool proxy: config.vardiff.initialDiff ?? null
VARDIFF_initialDiff == NullDiff
\* solo proxy: config.vardiff.initialDiff ?? 1.0
SOLO_initialDiff == 10000000

\* floor(x * a / b) without leaving 32 bits
MulDiv(x, a, b) == (x \div b) * a + ((x % b) * a) \div b

(***************************************************************************)
(* State.                                                                  *)
(***************************************************************************)
VARIABLES
  \* ---- pool proxy (proxy.js) ----
  upstream,             \* the upstream socket: "null" | "connecting" | "open" | "ended"
  upstreamReady,
  reconnectDelay,       \* ms
  reconnectTimers,      \* pending setTimeout(connectUpstream, d): the delays d
  poolExtranonce1,
  poolExtranonce2Size,
  currentJob,           \* last mining.notify params, <<>> for null
  currentTarget,        \* last mining.set_target hex, <<>> for null
  poolDifficulty,       \* NullDiff for null
  minerIdCounter,
  miners,               \* Map id -> miner
  totals,
  pendingUpstream,      \* Map upstream id -> "subscribe" | "authorize"
  upstreamRequestId,
  upQueued,             \* lines written while the socket was still connecting
  upOut,                \* lines that reached the pool, in order
  \* ---- history of the pool proxy ----
  shares,               \* upstream id -> the miner's submit it was allocated for
  delayLog,             \* reconnect delays scheduled, 0 marking a successful connect
  upIn,                 \* lines handled on the current socket, with what they matched
  \* ---- solo proxy (solo-proxy.js); miners, minerIdCounter and totals are
  \* the running program's ----
  currentTemplate,      \* <<>> for null, else <<tpl>>
  currentPowHash,       \* NullHash for null
  currentTargetLE,      \* <<>> for null
  currentJobId,
  nodeHealthy,
  nodeFailCount,
  lastTemplateTime,
  templateRpcs,         \* get_block_template requests in flight, oldest first,
                        \* each the number of the fetchTemplate() call that made it
  blockRpcs,            \* submit_block requests in flight
  \* ---- history of the solo proxy ----
  handled,              \* the mining.submit lines handled so far
  submitted,            \* every submit_block request issued so far
  lastPoll,             \* how the last settled get_block_template request ended,
                        \* which request it was, and the newest request answered
                        \* with a template so far
  \* ---- environment ----
  program,              \* which proxy runs: "pool" | "solo"
  now,                  \* Date.now(), seconds
  spent,                \* events handled so far, by kind
  \* ---- a helper function called on its own ----
  args,                 \* the arguments of the call
  returned,             \* the function called and what it returned
  \* ---- one socket's 'data' handler on its own ----
  reader                \* the bytes the peer writes, how many of them have
                        \* arrived, the read buffer (miner.buf, upstreamBuf)
                        \* and the lines handed to the message handler

poolVars ==
  << upstream, upstreamReady, reconnectDelay, reconnectTimers, poolExtranonce1,
     poolExtranonce2Size, currentJob, currentTarget, poolDifficulty,
     minerIdCounter, miners, totals, pendingUpstream, upstreamRequestId,
     upQueued, upOut, shares, delayLog, upIn >>

soloVars ==
  << currentTemplate, currentPowHash, currentTargetLE, currentJobId, nodeHealthy,
     nodeFailCount, lastTemplateTime, templateRpcs, blockRpcs, handled, submitted,
     lastPoll >>

\* the variables only the pool proxy has
poolOnlyVars ==
  << upstream, upstreamReady, reconnectDelay, reconnectTimers, poolExtranonce1,
     poolExtranonce2Size, currentJob, currentTarget, poolDifficulty, pendingUpstream,
     upstreamRequestId, upQueued, upOut, shares, delayLog, upIn >>

envVars == << program, now, spent >>

callVars == << args, returned >>

vars == << poolVars, soloVars, envVars, callVars, reader >>

(***************************************************************************)
(* Pool proxy: helpers.                                                    *)
(***************************************************************************)
\* The cause of a line written to a miner (history): the number of the
\* inbound line being handled, or the upstream id and result of the pool
\* response being handled.
ByLine(k) == [line |-> k, via |-> NullId, said |-> JNull]

ByPool(upId, result) == [line |-> 0, via |-> upId, said |-> result]

\* JS truthiness of a JSON value
Truthy(v) == v[1] \notin {"false", "null"}

Put(map, k, v) == [x \in DOMAIN map \cup {k} |-> IF x = k THEN v ELSE map[x]]

Drop(map, k) == [x \in DOMAIN map \ {k} |-> map[x]]

\* variant: the line is put in front of what was written before
sendToMiner_Prepend(mr, obj, why) ==
  IF ~mr.writable THEN mr
  ELSE [mr EXCEPT !.out = <<obj>> \o @, !.why = <<why>> \o @]

sendToMiner(mr, obj, why) ==
  IF ~mr.writable THEN mr
  ELSE [mr EXCEPT !.out = Append(@, obj), !.why = Append(@, why)]

minerExtranonce(minerId, en1, en2Size) ==
  [extranonce1 |-> en1 \o <<minerId % ByteBase>>,
   extranonce2Size |-> Max(1, en2Size - 1)]

\* variant: the miner's extranonce2 goes upstream without the suffix byte
buildFullExtranonce2_NoSuffix(minerId, minerEn2) == minerEn2

buildFullExtranonce2(minerId, minerEn2) == <<minerId % ByteBase>> \o minerEn2

localTargetForDiff(localDiff, curTarget, poolDiff) ==
  IF curTarget = <<>> \/ poolDiff = NullDiff \/ poolDiff = 0 \/ localDiff <= 0
    THEN curTarget
    ELSE LET poolTargetBig == hexLEToBigInt(curTarget)
             poolDiffScaled == MathRoundMicro(poolDiff)
             localDiffScaled == MathRoundMicro(localDiff)
         IN  IF localDiffScaled = 0 THEN RangeError
             ELSE bigIntToHexLE(BigDiv(BigMul(poolTargetBig, poolDiffScaled), localDiffScaled))

sendLocalTarget(mr, curTarget, poolDiff, why) ==
  LET t == localTargetForDiff(mr.vardiff.currentDiff, curTarget, poolDiff)
      m1 == IF t # <<>>
              THEN sendToMiner(mr, Notification("mining.set_target", <<t>>), why)
              ELSE mr
  IN  IF poolDiff # NullDiff
        THEN sendToMiner(m1, Notification("mining.set_difficulty",
                                          <<mr.vardiff.currentDiff>>), why)
        ELSE m1

computeNewDiff(vd, t) ==
  LET windowSec == t - vd.windowStart
      shareCount == Max(vd.sharesInWindow, 1)
      target == VARDIFF_targetShareSec
      ideal == target * shareCount
      dev == IF windowSec >= ideal THEN windowSec - ideal ELSE ideal - windowSec
      \* currentDiff * clamp(target / actualShareSec, 0.25, 4.0)
      scaled == IF ideal >= 4 * windowSec THEN vd.currentDiff * 4
                ELSE IF 4 * ideal <= windowSec THEN vd.currentDiff \div 4
                ELSE MulDiv(vd.currentDiff, ideal, windowSec)
  IN  IF windowSec < 1 THEN vd.currentDiff
      ELSE IF dev * 100 <= VARDIFF_variancePercent * ideal THEN vd.currentDiff
      ELSE Min(Max(scaled, VARDIFF_minDiff), VARDIFF_maxDiff)

\* variant: a retarget is never too early
tooEarly_Never(vd, t) == FALSE

\* now - miner.vardiff.lastRetarget < VARDIFF.retargetSec * 1000
tooEarly(vd, t) == t - vd.lastRetarget < VARDIFF_retargetSec

checkVardiff(mr, t, curTarget, poolDiff, why) ==
  IF tooEarly(mr.vardiff, t) THEN mr
  ELSE LET newDiff == computeNewDiff(mr.vardiff, t)
           m1 == [mr EXCEPT !.vardiff.windowStart = t,
                            !.vardiff.sharesInWindow = 0,
                            !.vardiff.lastRetarget = t]
       IN  IF newDiff # mr.vardiff.currentDiff
             THEN sendLocalTarget([m1 EXCEPT !.vardiff.currentDiff = newDiff],
                                  curTarget, poolDiff, why)
             ELSE m1

\* upstream.write(...) when the socket is writable; a connecting socket
\* queues the line until it is connected
\* variant: the message is put in front of what has been written
sendUpstream_Prepend(obj) ==
  /\ upOut' = IF upstream = "open" THEN << obj >> \o upOut ELSE upOut
  /\ upQueued' = IF upstream = "connecting" THEN << obj >> \o upQueued ELSE upQueued

sendUpstream(obj) ==
  /\ upOut' = IF upstream = "open" THEN Append(upOut, obj) ELSE upOut
  /\ upQueued' = IF upstream = "connecting" THEN Append(upQueued, obj) ELSE upQueued

\* variant: the counter stays where it is
postIncrement_Stuck(id) == id

\* upstreamRequestId++: the value the counter has afterwards
postIncrement(id) == id + 1

UpRequest(id, method, params) == [id |-> id, method |-> method, params |-> params]

newMiner(id, t) ==
  [id |-> id, writable |-> TRUE, authorized |-> FALSE, worker |-> "unknown",
   sharesSubmitted |-> 0, sharesAccepted |-> 0, sharesRejected |-> 0,
   sharesLocalOnly |-> 0, connectedAt |-> t, extranonce2Size |-> 0,
   pendingShares |-> << >>,
   garbled |-> {}, malformed |-> {},
   vardiff |-> [currentDiff |-> IF VARDIFF_initialDiff # NullDiff
                                  THEN VARDIFF_initialDiff ELSE DiffScale,
                windowStart |-> t, sharesInWindow |-> 0, lastRetarget |-> t],
   linesIn |-> 0, last |-> "", out |-> << >>, why |-> << >>]

(***************************************************************************)
(* Inputs: the lines miners and the pool may send.                         *)
(***************************************************************************)
Workers == {"rig1"}

JobIds == {"j1"}

Extranonce2s == {<<170>>}

Ntimes == {"t1"}

\* hex nonces (a missing or empty nonce would be <<>>)
Nonces == {<<0>>, <<2>>}

SubmitMsgs ==
  {[method |-> "mining.submit", params |-> <<w, j, e, t, n>>] :
      w \in Workers, j \in JobIds, e \in Extranonce2s, t \in Ntimes, n \in Nonces}

AuthorizeMsgs ==
  {[method |-> "mining.authorize", params |-> <<w, "x">>] : w \in Workers}

PlainMsgs(methods) == {[method |-> m, params |-> << >>] : m \in methods}

\* the lines of a miner that is past its handshake
ShareLines ==
  SubmitMsgs \cup AuthorizeMsgs \cup PlainMsgs({"mining.get_transactions"})

\* mining.notify params: job id, pow_hash, height
PoolJobs == {<<"j1", 0, 10>>}

\* 2^239, little-endian
PoolTargets == {[i \in 1..TargetBytes |-> IF i = 30 THEN 128 ELSE 0]}

PoolDiffs == {2 * DiffScale}

PoolEn1s == {<<171>>}

PoolEn2Sizes == {4}

PoolError == JArray(<<21, "Job not found", JNull>>)

PoolResults ==
  {JTrue, JFalse} \cup {JArray(<<JNull, e, z>>) : e \in PoolEn1s, z \in PoolEn2Sizes}

\* responses carry an error exactly when their result is false
PoolResponses(ids) ==
  {[id |-> i, method |-> "", params |-> << >>, result |-> r,
    error |-> IF r = JFalse THEN PoolError ELSE JNull] : i \in ids, r \in PoolResults}

PoolNotifications ==
  {Notification("mining.notify", j) : j \in PoolJobs}
  \cup {Notification("mining.set_target", <<t>>) : t \in PoolTargets}
  \cup {Notification("mining.set_difficulty", <<d>>) : d \in PoolDiffs}
  \cup {Notification("client.show_message", << >>)}

(***************************************************************************)
(* Pool proxy: initial state (module load, then connectUpstream()).        *)
(***************************************************************************)
PoolState(up) ==
  /\ upstream = up
  /\ upstreamReady = FALSE
  /\ reconnectDelay = InitialReconnectDelay
  /\ reconnectTimers = << >>
  /\ poolExtranonce1 = << >>
  /\ poolExtranonce2Size = 0
  /\ currentJob = << >>
  /\ currentTarget = << >>
  /\ poolDifficulty = NullDiff
  /\ pendingUpstream = << >>
  /\ upstreamRequestId = FirstUpstreamRequestId
  /\ upQueued = << >>
  /\ upOut = << >>
  /\ shares = << >>
  /\ delayLog = << >>
  /\ upIn = << >>

PoolInit ==
  /\ PoolState("connecting")
  /\ minerIdCounter = 0
  /\ miners = << >>
  /\ totals = [sharesSubmitted |-> 0, sharesAccepted |-> 0, sharesRejected |-> 0]

\* no helper function has been called on its own
NoCall == [fn |-> "", value |-> << >>, trace |-> << >>]

\* no byte written, none arrived
NoStream == [stream |-> << >>, received |-> 0, buf |-> << >>, lines |-> << >>]

EnvInit ==
  /\ now = 0
  /\ spent = [lines |-> 0, poolMsgs |-> 0, drops |-> 0, polls |-> 0]
  /\ args = << >>
  /\ returned = NoCall
  /\ reader = NoStream

(***************************************************************************)
(* Pool proxy: the upstream connection.                                    *)
(***************************************************************************)
\* variant: the timer stays armed after it has fired
connectUpstream_TimerStays ==
  /\ reconnectTimers # << >>
  /\ upstream' = "connecting"
  /\ upstreamReady' = FALSE
  /\ upQueued' = << >>
  /\ upIn' = << >>
  /\ UNCHANGED << reconnectTimers, reconnectDelay, poolExtranonce1, poolExtranonce2Size,
                  currentJob, currentTarget, poolDifficulty, minerIdCounter, miners,
                  totals, pendingUpstream, upstreamRequestId, upOut, shares, delayLog,
                  soloVars, envVars, callVars, reader >>

\* the reconnect timer fires: connectUpstream()
connectUpstream ==
  /\ reconnectTimers # << >>
  /\ reconnectTimers' = Tail(reconnectTimers)
  /\ upstream' = "connecting"
  /\ upstreamReady' = FALSE
  /\ upQueued' = << >>
  /\ upIn' = << >>
  /\ UNCHANGED << reconnectDelay, poolExtranonce1, poolExtranonce2Size, currentJob,
                  currentTarget, poolDifficulty, minerIdCounter, miners, totals,
                  pendingUpstream, upstreamRequestId, upOut, shares, delayLog,
                  soloVars, envVars, callVars, reader >>

\* the connect callback: reset the backoff, subscribeUpstream(); lines
\* queued on the connecting socket go out before the subscribe
UpstreamConnected ==
  /\ upstream = "connecting"
  /\ upstream' = "open"
  /\ reconnectDelay' = InitialReconnectDelay
  /\ upstreamRequestId' = postIncrement(upstreamRequestId)
  /\ upOut' = upOut \o upQueued
               \o <<UpRequest(upstreamRequestId, "mining.subscribe", <<"ckb-stratum-proxy/1.1">>)>>
  /\ upQueued' = << >>
  /\ pendingUpstream' = Put(pendingUpstream, upstreamRequestId, "subscribe")
  /\ delayLog' = Append(delayLog, 0)
  /\ UNCHANGED << upstreamReady, reconnectTimers, poolExtranonce1, poolExtranonce2Size,
                  currentJob, currentTarget, poolDifficulty, minerIdCounter, miners,
                  totals, shares, upIn, soloVars, envVars, callVars, reader >>

\* the pool ends the connection or the socket fails: it is no longer
\* writable, its 'close' event is still to come
UpstreamEnd ==
  /\ upstream \in {"connecting", "open"}
  /\ upstream' = "ended"
  /\ upQueued' = << >>
  /\ UNCHANGED << upstreamReady, reconnectDelay, reconnectTimers, poolExtranonce1,
                  poolExtranonce2Size, currentJob, currentTarget, poolDifficulty,
                  minerIdCounter, miners, totals, pendingUpstream, upstreamRequestId,
                  upOut, shares, delayLog, upIn, soloVars, envVars, callVars, reader >>

\* variant: doubling without the cap
nextReconnectDelay_Uncapped(delay) == delay * 2

\* Math.min(reconnectDelay * 2, 60000)
nextReconnectDelay(delay) == Min(delay * 2, MaxReconnectDelay)

\* upstream.on('close')
UpstreamClose ==
  /\ upstream \in {"connecting", "open", "ended"}
  /\ upstreamReady' = FALSE
  /\ upstream' = "null"
  /\ reconnectTimers' = Append(reconnectTimers, reconnectDelay)
  /\ reconnectDelay' = nextReconnectDelay(reconnectDelay)
  /\ upQueued' = << >>
  /\ delayLog' = Append(delayLog, reconnectDelay)
  /\ UNCHANGED << poolExtranonce1, poolExtranonce2Size, currentJob, currentTarget,
                  poolDifficulty, minerIdCounter, miners, totals, pendingUpstream,
                  upstreamRequestId, upOut, shares, upIn, soloVars, envVars, callVars, reader >>

(***************************************************************************)
(* Pool proxy: a line from the pool (handleUpstreamMessage).               *)
(***************************************************************************)
\* result[1] || '' and result[2] || 8 of a subscribe response
ResultEn1(result) ==
  IF result[1] = "array" /\ Len(result) >= 3 THEN result[3] ELSE << >>

ResultEn2Size(result) ==
  IF result[1] = "array" /\ Len(result) >= 4 /\ result[4] # 0
    THEN result[4] ELSE DefaultEn2Size

\* the first miner, in Map order, whose pendingShares has the id
ShareHolder(id) ==
  LET holders == {m \in DOMAIN miners : id \in DOMAIN miners[m].pendingShares}
  IN  CHOOSE m \in holders : \A o \in holders : m <= o

\* variant: any truthy result counts as accepted
IsTrue_Truthy(result) == Truthy(result)

\* msg.result === true
IsTrue(result) == result = JTrue

\* variant: any response to the authorize request makes the upstream ready
authorizeOk_AnyResult(ctx, result) == ctx = "authorize"

\* ctx.type === 'authorize' and msg.result is truthy
authorizeOk(ctx, result) == ctx = "authorize" /\ Truthy(result)

handleUpstreamResponse(ctx, msg) ==
  IF ctx = "subscribe" /\ Truthy(msg.result)
    THEN /\ poolExtranonce1' = ResultEn1(msg.result)
         /\ poolExtranonce2Size' = ResultEn2Size(msg.result)
         \* authorizeUpstream()
         /\ upstreamRequestId' = postIncrement(upstreamRequestId)
         /\ sendUpstream(UpRequest(upstreamRequestId, "mining.authorize",
                                   <<UPSTREAM_USER, UPSTREAM_PASS>>))
         /\ pendingUpstream' = Put(Drop(pendingUpstream, msg.id), upstreamRequestId, "authorize")
         /\ UNCHANGED upstreamReady
    ELSE /\ upstreamReady' = IF authorizeOk(ctx, msg.result)
                               THEN TRUE ELSE upstreamReady
         /\ pendingUpstream' = Drop(pendingUpstream, msg.id)
         /\ UNCHANGED << poolExtranonce1, poolExtranonce2Size, upstreamRequestId,
                         upOut, upQueued >>

\* variant: the pending entry stays after the response has been relayed
relayShareResponse_KeepPending(msg) ==
  LET m == ShareHolder(msg.id)
      mr == miners[m]
      originalId == mr.pendingShares[msg.id].originalId
      why == ByPool(msg.id, msg.result)
  IN  IF IsTrue(msg.result)
        THEN /\ totals' = [totals EXCEPT !.sharesAccepted = @ + 1]
             /\ miners' = [miners EXCEPT ![m] =
                             sendToMiner([mr EXCEPT !.sharesAccepted = @ + 1],
                                         Reply(originalId, JTrue, JNull), why)]
        ELSE /\ totals' = [totals EXCEPT !.sharesRejected = @ + 1]
             /\ miners' = [miners EXCEPT ![m] =
                             sendToMiner([mr EXCEPT !.sharesRejected = @ + 1],
                                         Reply(originalId, JFalse, msg.error), why)]

\* the response to a forwarded share, relayed to the miner holding its id
relayShareResponse(msg) ==
  LET m == ShareHolder(msg.id)
      mr == miners[m]
      originalId == mr.pendingShares[msg.id].originalId
      m1 == [mr EXCEPT !.pendingShares = Drop(@, msg.id)]
      why == ByPool(msg.id, msg.result)
  IN  IF IsTrue(msg.result)
        THEN /\ totals' = [totals EXCEPT !.sharesAccepted = @ + 1]
             /\ miners' = [miners EXCEPT ![m] =
                             sendToMiner([m1 EXCEPT !.sharesAccepted = @ + 1],
                                         Reply(originalId, JTrue, JNull), why)]
        ELSE /\ totals' = [totals EXCEPT !.sharesRejected = @ + 1]
             /\ miners' = [miners EXCEPT ![m] =
                             sendToMiner([m1 EXCEPT !.sharesRejected = @ + 1],
                                         Reply(originalId, JFalse, msg.error), why)]

\* variant: the line goes to every miner, authorized or not
broadcastToMiners_All(obj, why) ==
  [m \in DOMAIN miners |-> sendToMiner(miners[m], obj, why)]

broadcastToMiners(obj, why) ==
  [m \in DOMAIN miners |->
     IF miners[m].authorized THEN sendToMiner(miners[m], obj, why) ELSE miners[m]]

\* a line of the pool and what it is matched to (history)
Received(msg) ==
  [id |-> msg.id, result |-> msg.result, method |-> msg.method, params |-> msg.params,
   ctx |-> IF msg.id = NullId THEN "none"
           ELSE IF msg.id \in DOMAIN pendingUpstream THEN pendingUpstream[msg.id]
           ELSE IF \E m \in DOMAIN miners : msg.id \in DOMAIN miners[m].pendingShares
             THEN "share"
           ELSE "none"]

handleUpstreamMessage(msg) ==
  /\ upstream = "open"
  /\ spent' = [spent EXCEPT !.poolMsgs = @ + 1]
  /\ upIn' = Append(upIn, Received(msg))
  /\ IF msg.id # NullId /\ msg.id \in DOMAIN pendingUpstream
       THEN /\ handleUpstreamResponse(pendingUpstream[msg.id], msg)
            /\ UNCHANGED << currentJob, currentTarget, poolDifficulty, miners, totals >>
     ELSE IF msg.id # NullId /\ \E m \in DOMAIN miners : msg.id \in DOMAIN miners[m].pendingShares
       THEN /\ relayShareResponse(msg)
            /\ UNCHANGED << upstreamReady, poolExtranonce1, poolExtranonce2Size, currentJob,
                            currentTarget, poolDifficulty, pendingUpstream,
                            upstreamRequestId, upOut, upQueued >>
     ELSE /\ IF msg.method = "mining.notify"
               THEN /\ currentJob' = msg.params
                    /\ miners' = broadcastToMiners(
                                   Notification("mining.notify", msg.params), ByLine(0))
                    /\ UNCHANGED << currentTarget, poolDifficulty >>
             ELSE IF msg.method = "mining.set_target"
               THEN /\ currentTarget' = msg.params[1]
                    /\ miners' = [m \in DOMAIN miners |->
                                    IF miners[m].authorized
                                      THEN sendLocalTarget(miners[m], msg.params[1],
                                                           poolDifficulty, ByLine(0))
                                      ELSE miners[m]]
                    /\ UNCHANGED << currentJob, poolDifficulty >>
             ELSE IF msg.method = "mining.set_difficulty"
               THEN /\ poolDifficulty' = msg.params[1]
                    /\ miners' = [m \in DOMAIN miners |->
                                    IF miners[m].authorized
                                      THEN sendLocalTarget(miners[m], currentTarget,
                                                           msg.params[1], ByLine(0))
                                      ELSE miners[m]]
                    /\ UNCHANGED << currentJob, currentTarget >>
             ELSE UNCHANGED << currentJob, currentTarget, poolDifficulty, miners >>
          /\ UNCHANGED << upstreamReady, poolExtranonce1, poolExtranonce2Size, totals,
                          pendingUpstream, upstreamRequestId, upOut, upQueued >>
  /\ UNCHANGED << upstream, reconnectDelay, reconnectTimers, minerIdCounter, shares,
                  delayLog, soloVars, program, now, callVars, reader >>

(***************************************************************************)
(* Pool proxy: miner connections.                                          *)
(***************************************************************************)
\* net.createServer callback
MinerConnect ==
  /\ minerIdCounter' = minerIdCounter + 1
  /\ miners' = Put(miners, minerIdCounter, newMiner(minerIdCounter, now))
  /\ UNCHANGED << upstream, upstreamReady, reconnectDelay, reconnectTimers,
                  poolExtranonce1, poolExtranonce2Size, currentJob, currentTarget,
                  poolDifficulty, totals, pendingUpstream, upstreamRequestId,
                  upQueued, upOut, shares, delayLog, upIn, soloVars, envVars, callVars, reader >>

\* the miner's socket fails or is ended: no longer writable, 'close' to come
MinerSocketEnd(m) ==
  /\ m \in DOMAIN miners
  /\ miners[m].writable
  /\ miners' = [miners EXCEPT ![m].writable = FALSE]
  /\ spent' = [spent EXCEPT !.drops = @ + 1]
  /\ UNCHANGED << upstream, upstreamReady, reconnectDelay, reconnectTimers,
                  poolExtranonce1, poolExtranonce2Size, currentJob, currentTarget,
                  poolDifficulty, minerIdCounter, totals, pendingUpstream,
                  upstreamRequestId, upQueued, upOut, shares, delayLog, upIn, soloVars, program, now, callVars, reader >>

\* socket.on('close')
MinerClose(m) ==
  /\ m \in DOMAIN miners
  /\ miners' = Drop(miners, m)
  /\ spent' = [spent EXCEPT !.drops = @ + 1]
  /\ UNCHANGED << upstream, upstreamReady, reconnectDelay, reconnectTimers,
                  poolExtranonce1, poolExtranonce2Size, currentJob, currentTarget,
                  poolDifficulty, minerIdCounter, totals, pendingUpstream,
                  upstreamRequestId, upQueued, upOut, shares, delayLog, upIn, soloVars, program, now, callVars, reader >>

(***************************************************************************)
(* Pool proxy: a line from a miner (handleMinerMessage).  The request id   *)
(* of a miner's k-th line is k.                                            *)
(***************************************************************************)
LowDifficulty == JArray(<<LowDiffCode, "Low difficulty share", JNull>>)

\* case 'mining.submit'
handleSubmit(m, mr, id, msg) ==
  LET why == ByLine(id)
      m1 == [mr EXCEPT !.sharesSubmitted = @ + 1, !.vardiff.sharesInWindow = @ + 1]
      m2 == checkVardiff(m1, now, currentTarget, poolDifficulty, why)
      jobId == msg.params[2]
      en2 == msg.params[3]
      ntime == msg.params[4]
      nonce == msg.params[5]
      fullEn2 == buildFullExtranonce2(mr.id, en2)
      validate == currentJob # << >> /\ currentTarget # << >> /\ nonce # << >>
      hash == ShareHash(currentJob[2], padStart(nonce, NonceBytes))
      localTarget == localTargetForDiff(m2.vardiff.currentDiff, currentTarget, poolDifficulty)
      \* catch (e): forward anyway
      thrown == validate /\ localTarget = RangeError
      localAccept == IF validate /\ ~thrown /\ localTarget # << >>
                       THEN meetsTarget(hash, localTarget) ELSE TRUE
      meetsPool == IF validate /\ ~thrown THEN meetsTarget(hash, currentTarget) ELSE TRUE
      upId == upstreamRequestId
  IN  /\ totals' = [totals EXCEPT !.sharesSubmitted = @ + 1]
      /\ IF ~localAccept
           THEN /\ miners' = [miners EXCEPT ![m] =
                                sendToMiner(m2, Reply(id, JFalse, LowDifficulty), why)]
                /\ UNCHANGED << upstreamRequestId, upOut, upQueued, shares >>
         ELSE IF meetsPool
           THEN /\ upstreamRequestId' = postIncrement(upstreamRequestId)
                /\ miners' = [miners EXCEPT ![m] =
                                [m2 EXCEPT !.pendingShares = Put(@, upId, [originalId |-> id])]]
                /\ sendUpstream(UpRequest(upId, "mining.submit",
                                          <<UPSTREAM_USER, jobId, fullEn2, ntime, nonce>>))
                /\ shares' = Put(shares, upId,
                                 [miner |-> mr.id, line |-> id, params |-> msg.params,
                                  sent |-> upstream \in {"open", "connecting"}])
           ELSE /\ miners' = [miners EXCEPT ![m] =
                                sendToMiner([m2 EXCEPT !.sharesLocalOnly = @ + 1,
                                                       !.sharesAccepted = @ + 1],
                                            Reply(id, JTrue, JNull), why)]
                /\ UNCHANGED << upstreamRequestId, upOut, upQueued, shares >>

\* variant: the current job is announced before the reply
handleAuthorize_NotifyFirst(mr, id, msg) ==
  LET why == ByLine(id)
      m1 == IF currentJob # << >>
              THEN sendToMiner(mr, Notification("mining.notify", currentJob), why)
              ELSE mr
  IN  sendToMiner([m1 EXCEPT !.worker = msg.params[1], !.authorized = TRUE],
                  Reply(id, JTrue, JNull), why)

\* case 'mining.authorize'
handleAuthorize(mr, id, msg) ==
  LET why == ByLine(id)
      worker == IF msg.params[1] = "" THEN "unknown" ELSE msg.params[1]
      m1 == sendToMiner([mr EXCEPT !.worker = worker, !.authorized = TRUE],
                        Reply(id, JTrue, JNull), why)
      m2 == IF VARDIFF_initialDiff # NullDiff
              THEN [m1 EXCEPT !.vardiff.currentDiff = VARDIFF_initialDiff]
              ELSE IF poolDifficulty # NullDiff
                THEN [m1 EXCEPT !.vardiff.currentDiff = poolDifficulty]
                ELSE m1
      m3 == IF currentTarget # << >> \/ poolDifficulty # NullDiff
              THEN sendLocalTarget(m2, currentTarget, poolDifficulty, why)
              ELSE m2
  IN  IF currentJob # << >>
        THEN sendToMiner(m3, Notification("mining.notify", currentJob), why)
        ELSE m3

\* case 'mining.subscribe'
handleSubscribe(mr, id) ==
  LET en == minerExtranonce(mr.id, poolExtranonce1, poolExtranonce2Size)
  IN  sendToMiner([mr EXCEPT !.extranonce2Size = en.extranonce2Size],
                  Reply(id, JArray(<<JNull, en.extranonce1, en.extranonce2Size>>), JNull),
                  ByLine(id))

handleMinerMessage(m, msg) ==
  /\ m \in DOMAIN miners
  /\ miners[m].writable
  /\ spent' = [spent EXCEPT !.lines = @ + 1]
  /\ LET mr == [miners[m] EXCEPT !.linesIn = @ + 1, !.last = msg.method]
         id == mr.linesIn
     IN  IF msg.method = "mining.submit"
           THEN handleSubmit(m, mr, id, msg)
           ELSE /\ miners' = [miners EXCEPT ![m] =
                     IF msg.method = "mining.subscribe" THEN handleSubscribe(mr, id)
                     ELSE IF msg.method = "mining.authorize" THEN handleAuthorize(mr, id, msg)
                     ELSE IF msg.method = "mining.get_transactions"
                       THEN sendToMiner(mr, Reply(id, JArray(<< >>), JNull), ByLine(id))
                     ELSE IF msg.method = "mining.extranonce.subscribe"
                       THEN sendToMiner(mr, Reply(id, JTrue, JNull), ByLine(id))
                     ELSE mr]
                /\ UNCHANGED << totals, upstreamRequestId, upOut, upQueued, shares >>
  /\ UNCHANGED << upstream, upstreamReady, reconnectDelay, reconnectTimers,
                  poolExtranonce1, poolExtranonce2Size, currentJob, currentTarget,
                  poolDifficulty, minerIdCounter, pendingUpstream, delayLog, upIn, soloVars,
                  program, now, callVars, reader >>

\* d seconds pass
Advance(d) ==
  /\ now' = now + d
  /\ UNCHANGED << poolVars, soloVars, program, spent, callVars, reader >>

\* time passes
Tick == Advance(TickSec)

(***************************************************************************)
(* Solo proxy: helpers.                                                    *)
(***************************************************************************)
\* Number.prototype.toString(16) of a non-negative integer: its hex digits
RECURSIVE toString16(_)
toString16(n) ==
  IF n < HexRadix THEN <<n>> ELSE Append(toString16(n \div HexRadix), n % HexRadix)

RECURSIVE parseHexPrefix(_, _, _)
parseHexPrefix(s, acc, seen) ==
  IF s = << >> \/ Head(s) >= HexRadix
    THEN IF seen THEN acc ELSE NaN
    ELSE parseHexPrefix(Tail(s), acc * HexRadix + Head(s), TRUE)

\* parseInt(s, 16): the value of the longest prefix of hex digits, NaN when
\* there is none; a character that is no hex digit is the value HexRadix
parseInt16(s) == parseHexPrefix(s, 0, FALSE)

\* nonce.replace(/^0x/, '')
strip0x(nonce) ==
  IF nonce # << >> /\ Head(nonce) = HexPrefix THEN Tail(nonce) ELSE nonce

templateToHeaderFields(tpl) ==
  [compact_target |-> tpl.compact_target, timestamp |-> tpl.current_time,
   number |-> tpl.number, parent_hash |-> tpl.parent_hash]

\* ckbBlake2b(serializeRawHeader(fields)): a hash value (an integer) that
\* depends on every field of the raw header
computePowHash(fields) ==
  (fields.compact_target % 7) + 2 * fields.timestamp + 3 * fields.number
    + 5 * fields.parent_hash

\* the job state a notify is built from
JobState(tpl, powHash, targetLE, jobId) ==
  [template |-> tpl, powHash |-> powHash, targetLE |-> targetLE, jobId |-> jobId]

buildNotify(job, clean) ==
  Notification("mining.notify",
               <<toString16(job.jobId), job.powHash, job.template[1].number,
                 job.targetLE, clean>>)

\* variant: the job is announced to no one
broadcastJob_Silent(ms, job, clean) == ms

\* broadcastJob(clean) over the Map ms of miners
broadcastJob(ms, job, clean) ==
  IF job.template = << >> THEN ms
  ELSE [m \in DOMAIN ms |->
          IF ms[m].authorized THEN sendToMiner(ms[m], buildNotify(job, clean), ByLine(0))
          ELSE ms[m]]

sendVardiff(mr, why) ==
  LET t == diffToTargetLE(mr.vardiff.currentDiff)
  IN  sendToMiner(sendToMiner(mr, Notification("mining.set_target", <<t>>), why),
                  Notification("mining.set_difficulty", <<mr.vardiff.currentDiff>>), why)

\* solo-proxy.js checkVardiff
solo_checkVardiff(mr, t, why) ==
  IF tooEarly(mr.vardiff, t) THEN mr
  ELSE LET vd == mr.vardiff
           windowSec == t - vd.windowStart
           ideal == VARDIFF_targetShareSec * Max(vd.sharesInWindow, 1)
           dev == IF windowSec >= ideal THEN windowSec - ideal ELSE ideal - windowSec
           scaled == IF ideal >= 4 * windowSec THEN vd.currentDiff * 4
                     ELSE IF 4 * ideal <= windowSec THEN vd.currentDiff \div 4
                     ELSE MulDiv(vd.currentDiff, ideal, windowSec)
           newDiff == Min(Max(scaled, VARDIFF_minDiff), VARDIFF_maxDiff)
           m1 == [mr EXCEPT !.vardiff.windowStart = t,
                            !.vardiff.sharesInWindow = 0,
                            !.vardiff.lastRetarget = t]
       IN  IF dev * 100 <= VARDIFF_variancePercent * ideal THEN m1
           ELSE IF newDiff = vd.currentDiff THEN m1
           ELSE sendVardiff([m1 EXCEPT !.vardiff.currentDiff = newDiff], why)

solo_newMiner(id, t) ==
  [id |-> id, writable |-> TRUE, authorized |-> FALSE, worker |-> "unknown",
   sharesSubmitted |-> 0, sharesAccepted |-> 0, sharesRejected |-> 0,
   connectedAt |-> t,
   garbled |-> {}, malformed |-> {},
   vardiff |-> [currentDiff |-> SOLO_initialDiff, windowStart |-> t,
                sharesInWindow |-> 0, lastRetarget |-> t],
   linesIn |-> 0, last |-> "", out |-> << >>, why |-> << >>]

(***************************************************************************)
(* Solo proxy: inputs.                                                     *)
(***************************************************************************)
\* job ids a miner may send: "1" and "1z" (a hex digit, then another character)
SoloJobIds == {<<1>>, <<1, HexRadix>>}

SoloNonces == {<<0>>, <<2>>, <<3>>}

SoloSubmitMsgs ==
  {[method |-> "mining.submit", params |-> <<w, j, e, t, n>>] :
      w \in Workers, j \in SoloJobIds, e \in Extranonce2s, t \in Ntimes, n \in SoloNonces}

SoloLines == SoloSubmitMsgs \cup AuthorizeMsgs \cup PlainMsgs({"mining.get_transactions"})

\* get_block_template results: compact targets 0x2000ffff and 0x1a0fffff
NodeTemplates ==
  {[work_id |-> 1, parent_hash |-> 1, compact_target |-> 536936447,
    current_time |-> 100, number |-> 10],
   [work_id |-> 1, parent_hash |-> 1, compact_target |-> 536936447,
    current_time |-> 101, number |-> 10],
   [work_id |-> 2, parent_hash |-> 2, compact_target |-> 437256191,
    current_time |-> 102, number |-> 11]}

(***************************************************************************)
(* Solo proxy: initial state (module load, then startPolling(), whose      *)
(* first fetchTemplate() has its request in flight).                       *)
(***************************************************************************)
SoloState(rpcs) ==
  /\ currentTemplate = << >>
  /\ currentPowHash = NullHash
  /\ currentTargetLE = << >>
  /\ currentJobId = 0
  /\ nodeHealthy = TRUE
  /\ nodeFailCount = 0
  /\ lastTemplateTime = 0
  /\ templateRpcs = [i \in 1..rpcs |-> i]
  /\ blockRpcs = << >>
  /\ handled = << >>
  /\ submitted = << >>
  /\ lastPoll = [ok |-> FALSE, tpl |-> << >>, req |-> 0, newest |-> 0]

SoloInit ==
  /\ SoloState(1)
  /\ minerIdCounter = 0
  /\ miners = << >>
  /\ totals = [blocksFound |-> 0, sharesSubmitted |-> 0, sharesAccepted |-> 0,
               sharesRejected |-> 0]

(***************************************************************************)
(* Solo proxy: template polling and block submission.                      *)
(***************************************************************************)
\* the poll timer fires: fetchTemplate() up to its await
fetchTemplate ==
  \* startPolling() made call 1; this is the call after those of the timer so far
  /\ templateRpcs' = Append(templateRpcs, spent.polls + 2)
  /\ spent' = [spent EXCEPT !.polls = @ + 1]
  /\ UNCHANGED << currentTemplate, currentPowHash, currentTargetLE, currentJobId,
                  nodeHealthy, nodeFailCount, lastTemplateTime, blockRpcs, handled,
                  submitted, lastPoll, minerIdCounter, miners, totals, poolOnlyVars, program, now, callVars, reader >>

\* variant: no result is taken for the current template
sameTemplate_Never(tpl) == FALSE

\* currentTemplate && tpl.work_id === currentTemplate.work_id &&
\* tpl.parent_hash === currentTemplate.parent_hash
sameTemplate(tpl) ==
  /\ currentTemplate # << >>
  /\ tpl.work_id = currentTemplate[1].work_id
  /\ tpl.parent_hash = currentTemplate[1].parent_hash

\* fetchTemplate() after its await, the node having answered tpl
fetchTemplateResolved(k, tpl) ==
  /\ k \in DOMAIN templateRpcs
  /\ templateRpcs' = RemoveAt(templateRpcs, k)
  /\ lastTemplateTime' = now
  /\ IF sameTemplate(tpl)
       THEN /\ currentTemplate' =
                 <<[currentTemplate[1] EXCEPT !.current_time = tpl.current_time]>>
            /\ UNCHANGED << currentPowHash, currentTargetLE, currentJobId, nodeHealthy,
                            nodeFailCount, miners >>
       ELSE LET powHash == computePowHash(templateToHeaderFields(tpl))
                targetLE == compactToTargetLE(tpl.compact_target)
            IN  /\ nodeHealthy' = TRUE
                /\ nodeFailCount' = IF nodeHealthy THEN nodeFailCount ELSE 0
                /\ currentTemplate' = <<tpl>>
                /\ currentJobId' = currentJobId + 1
                /\ currentPowHash' = powHash
                /\ currentTargetLE' = targetLE
                /\ miners' = broadcastJob(miners,
                                          JobState(<<tpl>>, powHash, targetLE, currentJobId + 1),
                                          FALSE)
  /\ lastPoll' = [ok |-> TRUE, tpl |-> <<tpl>>, req |-> templateRpcs[k],
                  newest |-> Max(lastPoll.newest, templateRpcs[k])]
  /\ UNCHANGED << blockRpcs, handled, submitted, minerIdCounter, totals, poolOnlyVars,
                  envVars, callVars, reader >>

\* fetchTemplate() after its await, the request having failed
fetchTemplateRejected(k) ==
  /\ k \in DOMAIN templateRpcs
  /\ templateRpcs' = RemoveAt(templateRpcs, k)
  /\ nodeFailCount' = nodeFailCount + 1
  /\ nodeHealthy' = FALSE
  /\ lastPoll' = [ok |-> FALSE, tpl |-> << >>, req |-> templateRpcs[k],
                  newest |-> lastPoll.newest]
  /\ UNCHANGED << currentTemplate, currentPowHash, currentTargetLE, currentJobId,
                  lastTemplateTime, blockRpcs, handled, submitted, minerIdCounter,
                  miners, totals, poolOnlyVars, envVars, callVars, reader >>

\* submitBlock(nonce) up to its await: the submit_block request, built from
\* the template that is current now
submitBlock(noncePadded, share) ==
  LET tpl == currentTemplate[1]
      fields == templateToHeaderFields(tpl)
  IN  [work_id |-> tpl.work_id,
       header |-> [compact_target |-> fields.compact_target,
                   timestamp |-> fields.timestamp, number |-> fields.number,
                   parent_hash |-> fields.parent_hash, nonce |-> noncePadded],
       share |-> share]

\* submitBlock after its await, the node having accepted the block; then
\* broadcastJob(true)
submitBlockResolved(k) ==
  /\ k \in DOMAIN blockRpcs
  /\ blockRpcs' = RemoveAt(blockRpcs, k)
  /\ totals' = [totals EXCEPT !.blocksFound = @ + 1]
  /\ miners' = broadcastJob(miners,
                            JobState(currentTemplate, currentPowHash, currentTargetLE,
                                     currentJobId),
                            TRUE)
  /\ UNCHANGED << currentTemplate, currentPowHash, currentTargetLE, currentJobId,
                  nodeHealthy, nodeFailCount, lastTemplateTime, templateRpcs, handled,
                  submitted, lastPoll, minerIdCounter, poolOnlyVars, envVars, callVars, reader >>

\* submitBlock after its await, the request having failed
submitBlockRejected(k) ==
  /\ k \in DOMAIN blockRpcs
  /\ blockRpcs' = RemoveAt(blockRpcs, k)
  /\ UNCHANGED << currentTemplate, currentPowHash, currentTargetLE, currentJobId,
                  nodeHealthy, nodeFailCount, lastTemplateTime, templateRpcs, handled,
                  submitted, lastPoll, minerIdCounter, miners, totals, poolOnlyVars, envVars, callVars, reader >>

(***************************************************************************)
(* Solo proxy: miner connections and lines (handleMinerMessage).           *)
(***************************************************************************)
\* net.createServer callback
solo_MinerConnect ==
  /\ minerIdCounter' = minerIdCounter + 1
  /\ miners' = Put(miners, minerIdCounter, solo_newMiner(minerIdCounter, now))
  /\ UNCHANGED << totals, soloVars, poolOnlyVars, envVars, callVars, reader >>

NoCurrentJob == JArray(<<NoJobCode, "No current job", JNull>>)

\* variant: no share is treated as stale
isStaleJob_Never(jobIdInt) == FALSE

\* jobIdInt !== currentJobId
isStaleJob(jobIdInt) == jobIdInt # currentJobId

\* the history entry of one handled mining.submit
Handled(mr, id, msg, reply, hashed, compared, rpcs) ==
  [miner |-> mr.id, line |-> id, jobId |-> msg.params[2], nonce |-> msg.params[5],
   currentJobId |-> currentJobId, template |-> currentTemplate,
   powHash |-> currentPowHash, targetLE |-> currentTargetLE,
   diff |-> mr.vardiff.currentDiff, reply |-> reply,
   eaglesong |-> hashed, compared |-> compared, submitBlock |-> rpcs]

\* case 'mining.submit'
solo_handleSubmit(m, mr, id, msg) ==
  LET why == ByLine(id)
      m1 == [mr EXCEPT !.sharesSubmitted = @ + 1, !.vardiff.sharesInWindow = @ + 1]
      m2 == solo_checkVardiff(m1, now, why)
      jobId == msg.params[2]
      nonce == msg.params[5]
      jobIdInt == parseInt16(jobId)
      noncePadded == padStart(strip0x(nonce), NonceBytes)
      hash == ShareHash(currentPowHash, noncePadded)
      localTarget == diffToTargetLE(m2.vardiff.currentDiff)
      accepted == Reply(id, JTrue, JNull)
      share == Len(handled) + 1
  IN  IF isStaleJob(jobIdInt)
        THEN /\ totals' = [totals EXCEPT !.sharesSubmitted = @ + 2, !.sharesAccepted = @ + 1]
             /\ miners' = [miners EXCEPT ![m] =
                             sendToMiner([m2 EXCEPT !.sharesSubmitted = @ + 1,
                                                    !.sharesAccepted = @ + 1],
                                         accepted, why)]
             /\ handled' = Append(handled, Handled(m2, id, msg, accepted, FALSE, FALSE, 0))
             /\ UNCHANGED << blockRpcs, submitted >>
      ELSE IF nonce = << >> \/ currentPowHash = NullHash
        THEN /\ totals' = [totals EXCEPT !.sharesSubmitted = @ + 1]
             /\ miners' = [miners EXCEPT ![m] =
                             sendToMiner(m2, Reply(id, JFalse, NoCurrentJob), why)]
             /\ handled' = Append(handled,
                                  Handled(m2, id, msg, Reply(id, JFalse, NoCurrentJob),
                                          FALSE, FALSE, 0))
             /\ UNCHANGED << blockRpcs, submitted >>
      ELSE IF ~meetsTargetLE(hash, localTarget)
        THEN /\ totals' = [totals EXCEPT !.sharesSubmitted = @ + 1, !.sharesRejected = @ + 1]
             /\ miners' = [miners EXCEPT ![m] =
                             sendToMiner([m2 EXCEPT !.sharesRejected = @ + 1],
                                         Reply(id, JFalse, LowDifficulty), why)]
             /\ handled' = Append(handled,
                                  Handled(m2, id, msg, Reply(id, JFalse, LowDifficulty),
                                          TRUE, TRUE, 0))
             /\ UNCHANGED << blockRpcs, submitted >>
      ELSE /\ totals' = [totals EXCEPT !.sharesSubmitted = @ + 1, !.sharesAccepted = @ + 1]
           /\ miners' = [miners EXCEPT ![m] =
                           sendToMiner([m2 EXCEPT !.sharesAccepted = @ + 1], accepted, why)]
           /\ IF meetsTargetLE(hash, currentTargetLE)
                THEN /\ blockRpcs' = Append(blockRpcs, submitBlock(noncePadded, share))
                     /\ submitted' = Append(submitted, submitBlock(noncePadded, share))
                     /\ handled' = Append(handled,
                                          Handled(m2, id, msg, accepted, TRUE, TRUE, 1))
                ELSE /\ handled' = Append(handled,
                                          Handled(m2, id, msg, accepted, TRUE, TRUE, 0))
                     /\ UNCHANGED << blockRpcs, submitted >>

\* case 'mining.authorize'
solo_handleAuthorize(mr, id, msg) ==
  LET why == ByLine(id)
      worker == IF msg.params[1] = "" THEN "miner" ELSE msg.params[1]
      m1 == sendToMiner([mr EXCEPT !.worker = worker, !.authorized = TRUE],
                        Reply(id, JTrue, JNull), why)
      m2 == IF currentTargetLE # << >> THEN sendVardiff(m1, why) ELSE m1
  IN  IF currentTemplate # << >>
        THEN sendToMiner(m2, buildNotify(JobState(currentTemplate, currentPowHash,
                                                  currentTargetLE, currentJobId),
                                         FALSE), why)
        ELSE m2

solo_handleMinerMessage(m, msg) ==
  /\ m \in DOMAIN miners
  /\ miners[m].writable
  /\ spent' = [spent EXCEPT !.lines = @ + 1]
  /\ LET mr == [miners[m] EXCEPT !.linesIn = @ + 1, !.last = msg.method]
         id == mr.linesIn
     IN  IF msg.method = "mining.submit"
           THEN solo_handleSubmit(m, mr, id, msg)
           ELSE /\ miners' = [miners EXCEPT ![m] =
                     IF msg.method = "mining.authorize" THEN solo_handleAuthorize(mr, id, msg)
                     ELSE IF msg.method = "mining.get_transactions"
                       THEN sendToMiner(mr, Reply(id, JArray(<< >>), JNull), ByLine(id))
                     ELSE IF msg.method \in {"mining.extranonce.subscribe",
                                             "mining.suggest_difficulty",
                                             "mining.suggest_target"}
                       THEN sendToMiner(mr, Reply(id, JTrue, JNull), ByLine(id))
                     ELSE mr]
                /\ UNCHANGED << totals, blockRpcs, handled, submitted >>
  /\ UNCHANGED << currentTemplate, currentPowHash, currentTargetLE, currentJobId,
                  nodeHealthy, nodeFailCount, lastTemplateTime, templateRpcs, lastPoll,
                  minerIdCounter, poolOnlyVars, program, now, callVars, reader >>

(***************************************************************************)
(* Both proxies: inbound lines, from JSON.parse on.  A line is text that   *)
(* is no JSON, or the JSON value it parses to: null, a number, or an       *)
(* object with a method and, unless hasParams is false, a params array.    *)
(***************************************************************************)
NoMessage == [method |-> "", params |-> << >>]

GarbageLine == [kind |-> "garbage", hasParams |-> FALSE, value |-> NoMessage]

NonObjectLines ==
  {[kind |-> k, hasParams |-> FALSE, value |-> NoMessage] : k \in {"null", "number"}}

JSONLine(msg) == [kind |-> "object", hasParams |-> TRUE, value |-> msg]

\* objects without a params member
NoParamsLines ==
  {[kind |-> "object", hasParams |-> FALSE, value |-> msg] :
      msg \in PlainMsgs({"mining.authorize", "mining.submit"})}

\* JSON.parse(line) throws a SyntaxError
parseFails(line) == line.kind = "garbage"

\* the handler throws a TypeError: msg.method of null, msg.params[0] or the
\* destructuring of msg.params when params is undefined
throwsTypeError(line) ==
  \/ line.kind = "null"
  \/ /\ line.kind = "object"
     /\ ~line.hasParams
     /\ line.value.method \in {"mining.authorize", "mining.submit"}

\* variant: a line that does not parse is answered with an error
discardLine_Reply(mr, id) ==
  sendToMiner(mr, Reply(id, JNull, JArray(<<NoJobCode, "Parse error", JNull>>)), ByLine(id))

\* catch { return; }
discardLine(mr, id) == mr

\* socket.on('data') handing one line of miner m to handleMinerMessage.  An
\* exception the handler does not catch ends the process; what the ended
\* process had in memory is left as it was.
onMinerLine(m, line) ==
  IF ~parseFails(line) /\ ~throwsTypeError(line) /\ line.kind = "object"
    THEN IF program = "pool" THEN handleMinerMessage(m, line.value)
         ELSE solo_handleMinerMessage(m, line.value)
    ELSE /\ m \in DOMAIN miners
         /\ miners[m].writable
         /\ spent' = [spent EXCEPT !.lines = @ + 1]
         /\ LET id == miners[m].linesIn + 1
                mr == [miners[m] EXCEPT !.linesIn = id, !.last = ""]
            IN  IF parseFails(line)
                  THEN /\ miners' = [miners EXCEPT ![m] =
                             discardLine([mr EXCEPT !.garbled = @ \cup {id}], id)]
                       /\ UNCHANGED program
                ELSE IF throwsTypeError(line)
                  THEN /\ miners' = [miners EXCEPT ![m] =
                             [mr EXCEPT !.malformed = @ \cup {id}]]
                       /\ program' = "exited"
                \* msg.method is undefined: the default branch, a log line
                ELSE /\ miners' = [miners EXCEPT ![m] =
                           [mr EXCEPT !.malformed = @ \cup {id}]]
                     /\ UNCHANGED program
         /\ UNCHANGED << minerIdCounter, totals, poolOnlyVars, soloVars, now, callVars, reader >>

\* upstream.on('data') handing one line of the pool to handleUpstreamMessage
onUpstreamLine(line) ==
  IF ~parseFails(line) THEN handleUpstreamMessage(line.value)
  ELSE /\ upstream = "open"
       /\ spent' = [spent EXCEPT !.poolMsgs = @ + 1]
       /\ upIn' = Append(upIn, [id |-> NullId, result |-> JNull, method |-> "",
                                params |-> << >>, ctx |-> "garbage"])
       /\ UNCHANGED << upstream, upstreamReady, reconnectDelay, reconnectTimers,
                       poolExtranonce1, poolExtranonce2Size, currentJob, currentTarget,
                       poolDifficulty, minerIdCounter, miners, totals, pendingUpstream,
                       upstreamRequestId, upQueued, upOut, shares, delayLog, soloVars,
                       program, now, callVars, reader >>

(***************************************************************************)
(* Specifications.  The actions above are unbounded; each specification    *)
(* bounds the events of its environment.                                   *)
(***************************************************************************)
\* the upstream ids awaiting a response, and one that is not
AnswerableIds ==
  DOMAIN pendingUpstream
  \cup UNION {DOMAIN miners[m].pendingShares : m \in DOMAIN miners}
  \cup {upstreamRequestId}

PoolMessages == PoolNotifications \cup PoolResponses(AnswerableIds)

\* closes of the upstream socket so far
Closes == Cardinality({i \in DOMAIN delayLog : delayLog[i] # 0})

\* the pool proxy
Init == program = "pool" /\ PoolInit /\ SoloState(0) /\ EnvInit

Next ==
  \/ minerIdCounter < MaxMiners /\ MinerConnect
  \/ spent.drops < MaxDrops /\ \E m \in DOMAIN miners : MinerSocketEnd(m)
  \/ spent.drops < MaxDrops /\ \E m \in DOMAIN miners : MinerClose(m)
  \/ spent.lines < MaxLines
       /\ \E m \in DOMAIN miners, msg \in ShareLines : handleMinerMessage(m, msg)
  \/ spent.poolMsgs < MaxPoolMsgs
       /\ \E msg \in PoolMessages : handleUpstreamMessage(msg)
  \/ Closes < MaxCloses /\ UpstreamEnd
  \/ Closes < MaxCloses /\ UpstreamClose
  \/ connectUpstream
  \/ UpstreamConnected

Spec == Init /\ [][Next]_vars

\* the pool proxy's upstream connection alone
NextBackoff ==
  \/ Closes < MaxBackoffCloses /\ UpstreamEnd
  \/ Closes < MaxBackoffCloses /\ UpstreamClose
  \/ connectUpstream
  \/ UpstreamConnected

SpecBackoff == Init /\ [][NextBackoff]_vars

\* the pool proxy's miner connections alone: every miner subscribes before
\* the next one connects and before it disconnects
NextAlloc ==
  \/ minerIdCounter < MaxAllocIds /\ Cardinality(DOMAIN miners) < MaxAllocConcurrent
       /\ (\A m \in DOMAIN miners : miners[m].linesIn = 1)
       /\ MinerConnect
  \/ \E m \in DOMAIN miners, msg \in PlainMsgs({"mining.subscribe"}) :
       miners[m].linesIn = 0 /\ handleMinerMessage(m, msg)
  \/ \E m \in DOMAIN miners : miners[m].linesIn = 1 /\ MinerClose(m)

SpecAlloc == Init /\ [][NextAlloc]_vars

\* the solo proxy
InitSolo == program = "solo" /\ SoloInit /\ PoolState("null") /\ EnvInit

SoloNext ==
  \/ minerIdCounter < MaxSoloMiners /\ solo_MinerConnect
  \/ spent.drops < MaxDrops /\ \E m \in DOMAIN miners : MinerSocketEnd(m)
  \/ spent.drops < MaxDrops /\ \E m \in DOMAIN miners : MinerClose(m)
  \/ spent.lines < MaxLines
       /\ \E m \in DOMAIN miners, msg \in SoloLines : solo_handleMinerMessage(m, msg)
  \/ spent.polls < MaxPolls /\ fetchTemplate
  \/ \E k \in DOMAIN templateRpcs, tpl \in NodeTemplates : fetchTemplateResolved(k, tpl)
  \/ \E k \in DOMAIN templateRpcs : fetchTemplateRejected(k)
  \/ \E k \in DOMAIN blockRpcs : submitBlockResolved(k)
  \/ \E k \in DOMAIN blockRpcs : submitBlockRejected(k)
  \/ now < MaxTicks * TickSec /\ Tick

SpecSolo == InitSolo /\ [][SoloNext]_vars

\* get_block_template results for the polling specification: those above and
\* one that keeps the work_id of the first with another parent_hash
PollTemplates ==
  NodeTemplates
  \cup {[work_id |-> 1, parent_hash |-> 2, compact_target |-> 536936447,
         current_time |-> 103, number |-> 11]}

\* the solo proxy's template polling, with miners that authorize
NextPoll ==
  \/ minerIdCounter < MaxSoloMiners /\ solo_MinerConnect
  \/ spent.lines < MaxLines
       /\ \E m \in DOMAIN miners, msg \in AuthorizeMsgs : solo_handleMinerMessage(m, msg)
  \/ spent.polls < MaxPollPolls /\ fetchTemplate
  \/ \E k \in DOMAIN templateRpcs, tpl \in PollTemplates : fetchTemplateResolved(k, tpl)
  \/ \E k \in DOMAIN templateRpcs : fetchTemplateRejected(k)

SpecPoll == InitSolo /\ [][NextPoll]_vars

\* the lines and pool messages of the vardiff specification: one miner that
\* authorizes and submits shares for the current job, a pool that announces a
\* difficulty inside, below or above the configured [minDiff, maxDiff]
VardiffLines ==
  AuthorizeMsgs
  \cup {[method |-> "mining.submit", params |-> <<w, j, e, t, <<0>> >>] :
         w \in Workers, j \in JobIds, e \in Extranonce2s, t \in Ntimes}

VardiffSoloLines ==
  AuthorizeMsgs
  \cup {[method |-> "mining.submit", params |-> <<w, <<1>>, e, t, <<0>> >>] :
         w \in Workers, e \in Extranonce2s, t \in Ntimes}

\* the node's template in the vardiff specification
VardiffTemplates == {tpl \in NodeTemplates : tpl.current_time = 100}

VardiffPoolDiffs == {2 * DiffScale, VARDIFF_minDiff \div 10, 2 * VARDIFF_maxDiff}

VardiffPoolMessages ==
  {Notification("mining.set_difficulty", <<d>>) : d \in VardiffPoolDiffs}

\* share submission over time, in either proxy
NextVardiff ==
  \/ /\ program = "pool"
     /\ \/ minerIdCounter < MaxVardiffMiners /\ MinerConnect
        \/ spent.lines < MaxVardiffLines
             /\ \E m \in DOMAIN miners, msg \in VardiffLines : handleMinerMessage(m, msg)
        \/ UpstreamConnected
        \/ spent.poolMsgs < MaxVardiffPoolMsgs
             /\ \E msg \in VardiffPoolMessages : handleUpstreamMessage(msg)
  \/ /\ program = "solo"
     /\ \/ minerIdCounter < MaxVardiffMiners /\ solo_MinerConnect
        \/ spent.lines < MaxVardiffLines
             /\ \E m \in DOMAIN miners, msg \in VardiffSoloLines :
                  solo_handleMinerMessage(m, msg)
        \/ \E k \in DOMAIN templateRpcs, tpl \in VardiffTemplates : fetchTemplateResolved(k, tpl)
  \/ now < MaxVardiffTicks * VardiffTickSec /\ Advance(VardiffTickSec)

SpecVardiff == (Init \/ InitSolo) /\ [][NextVardiff]_vars

\* the lines of the line specification
MinerLines ==
  {GarbageLine} \cup NonObjectLines \cup NoParamsLines
  \cup {JSONLine(msg) : msg \in AuthorizeMsgs \cup PlainMsgs({"mining.get_transactions"})}

UpstreamLines ==
  {GarbageLine}
  \cup {JSONLine(msg) : msg \in PoolNotifications \cup PoolResponses(DOMAIN pendingUpstream)}

\* either proxy, fed well-formed and ill-formed lines, while it runs
NextLines ==
  \/ /\ program = "pool"
     /\ \/ minerIdCounter < MaxLinesMiners /\ MinerConnect
        \/ UpstreamConnected
        \/ spent.poolMsgs < MaxLinesPoolMsgs
             /\ \E line \in UpstreamLines : onUpstreamLine(line)
  \/ /\ program = "solo"
     /\ \/ minerIdCounter < MaxLinesMiners /\ solo_MinerConnect
        \/ \E k \in DOMAIN templateRpcs, tpl \in VardiffTemplates : fetchTemplateResolved(k, tpl)
  \/ /\ program \in {"pool", "solo"}
     /\ spent.lines < MaxLinesLines
     /\ \E m \in DOMAIN miners, line \in MinerLines : onMinerLine(m, line)

SpecLines == (Init \/ InitSolo) /\ [][NextLines]_vars

\* either proxy
NextEither ==
  \/ program = "pool" /\ Next
  \/ program = "solo" /\ SoloNext

SpecEither == (Init \/ InitSolo) /\ [][NextEither]_vars

(***************************************************************************)
(* The helper functions on their own: the arguments are drawn when the     *)
(* behaviour starts and one call is made.                                  *)
(***************************************************************************)
\* a 256-bit value as 32 little-endian bytes, zero but for bytes 0, 28 and 31
LE256(b0, b28, b31) ==
  [i \in 1..TargetBytes |->
     IF i = 1 THEN b0 ELSE IF i = 29 THEN b28 ELSE IF i = 32 THEN b31 ELSE 0]

\* 2^224 - 1 and 2^256 - 1
OnesBelow(n) == [i \in 1..TargetBytes |-> IF i <= n THEN ByteBase - 1 ELSE 0]

Values256 ==
  {LE256(b0, b28, b31) : b0 \in {0, 1, 2, ByteBase - 1}, b28 \in {0, 1},
                         b31 \in {0, 1, ByteBase \div 2}}
    \cup {OnesBelow(28), OnesBelow(TargetBytes)}

\* (hashBuf, targetHex)
MeetsArgs == Values256 \X Values256

\* difficulties, in units of 1 / DiffScale
CallDiffs ==
  {0 - DiffScale, 0, 1, 4, 10, 20, 30, VARDIFF_minDiff, DiffScale \div 2, DiffScale,
   2 * DiffScale, 3 * DiffScale, 8 * DiffScale}

DiffArgs == {<< d >> : d \in CallDiffs}

CallArgs == MeetsArgs \cup DiffArgs

InitCall ==
  /\ program = "solo"
  /\ SoloInit
  /\ PoolState("null")
  /\ now = 0
  /\ spent = [lines |-> 0, poolMsgs |-> 0, drops |-> 0, polls |-> 0]
  /\ args \in CallArgs
  /\ returned = NoCall
  /\ reader = NoStream

Returns(fn, value) ==
  /\ returned = NoCall
  /\ returned' = [fn |-> fn, value |-> value, trace |-> << >>]
  /\ UNCHANGED << poolVars, soloVars, envVars, args, reader >>

call_meetsTarget ==
  args \in MeetsArgs /\ Returns("meetsTarget", meetsTarget(args[1], args[2]))

call_meetsTargetLE ==
  args \in MeetsArgs /\ Returns("meetsTargetLE", meetsTargetLE(args[1], args[2]))

call_diffToTargetLE ==
  args \in DiffArgs /\ Returns("diffToTargetLE", diffToTargetLE(args[1]))

NextCall ==
  \/ call_meetsTarget
  \/ call_meetsTargetLE
  \/ call_diffToTargetLE

SpecCall == InitCall /\ [][NextCall]_vars

\* n bytes '1'
Ones(n) == [i \in 1..n |-> 49]

\* the inputs of the self-test, and runs of '1' up to two full blocks
EaglesongInputs ==
  {<< >>, Ones(34) \o << 10 >>} \cup {Ones(n) : n \in 0..MaxInputLen}

EaglesongArgs == {<< input >> : input \in EaglesongInputs}

InitHash ==
  /\ program = "solo"
  /\ SoloInit
  /\ PoolState("null")
  /\ now = 0
  /\ spent = [lines |-> 0, poolMsgs |-> 0, drops |-> 0, polls |-> 0]
  /\ args \in EaglesongArgs
  /\ returned = NoCall
  /\ reader = NoStream

\* eaglesong(input), with what the sponge did on the way
call_eaglesong ==
  /\ returned = NoCall
  /\ \E sponge \in {absorb(args[1])} :
       returned' = [fn |-> "eaglesong", value |-> squeeze(sponge.state),
                    trace |-> [blocks |-> sponge.blk,
                               permutations |-> sponge.permutations,
                               bytes |-> sponge.bytes]]
  /\ UNCHANGED << poolVars, soloVars, envVars, args, reader >>

NextHash == call_eaglesong

SpecHash == InitHash /\ [][NextHash]_vars

\* the pool answering forwarded shares, also those it has answered before
NextRelay ==
  \/ minerIdCounter < MaxRelayMiners /\ MinerConnect
  \/ spent.lines < MaxRelayLines
       /\ \E m \in DOMAIN miners, msg \in SubmitMsgs : handleMinerMessage(m, msg)
  \/ spent.poolMsgs < MaxRelayPoolMsgs
       /\ \E msg \in PoolResponses(DOMAIN shares \cup AnswerableIds) :
            handleUpstreamMessage(msg)
  \/ UpstreamConnected

SpecRelay == Init /\ [][NextRelay]_vars

\* the subscribe results of the handshake specification: two extranonce1
\* values, extranonce2 sizes of one byte and of four
ShakeResponses(ids) ==
  {[id |-> i, method |-> "", params |-> << >>,
    result |-> JArray(<<JNull, e, z>>), error |-> JNull] :
      i \in ids, e \in {<<171>>, <<205>>}, z \in {1, 4}}

\* mining.subscribe, and mining.submit with an extranonce2 of one byte or of
\* three
ShakeLines ==
  PlainMsgs({"mining.subscribe"})
  \cup {[method |-> "mining.submit", params |-> <<w, j, e, t, <<0>> >>] :
         w \in Workers, j \in JobIds, e \in {<<170>>, <<170, 187, 204>>}, t \in Ntimes}

\* the pool proxy's subscriptions: miners that subscribe and submit while the
\* upstream connects, is answered, closes and reconnects
NextShake ==
  \/ minerIdCounter < MaxShakeMiners /\ MinerConnect
  \/ spent.lines < MaxShakeLines
       /\ \E m \in DOMAIN miners, msg \in ShakeLines : handleMinerMessage(m, msg)
  \/ spent.poolMsgs < MaxShakePoolMsgs
       /\ \E msg \in ShakeResponses(DOMAIN pendingUpstream) : handleUpstreamMessage(msg)
  \/ Closes < MaxShakeCloses /\ UpstreamClose
  \/ connectUpstream
  \/ UpstreamConnected

SpecShake == Init /\ [][NextShake]_vars

(***************************************************************************)
(* Line framing: the 'data' handler of a miner socket and of the upstream  *)
(* socket, fed one byte stream in chunks.                                  *)
(***************************************************************************)
\* U+FFFD, what a UTF-8 decoder writes for a byte it cannot decode
ReplacementChar == 65533

IsContinuation(b) == b >= 128 /\ b < 192

\* the first byte of a two-byte UTF-8 sequence
IsLead2(b) == b >= 194 /\ b < 224

\* data.toString(): the chunk decoded as UTF-8 on its own, characters as code
\* points (sequences of one and of two bytes)
RECURSIVE toString(_)
toString(bytes) ==
  IF bytes = << >> THEN << >>
  ELSE IF Head(bytes) < 128 THEN <<Head(bytes)>> \o toString(Tail(bytes))
  ELSE IF IsLead2(Head(bytes)) /\ Len(bytes) >= 2 /\ IsContinuation(bytes[2])
    THEN <<(Head(bytes) % 32) * 64 + (bytes[2] % 64)>> \o toString(Tail(Tail(bytes)))
  ELSE <<ReplacementChar>> \o toString(Tail(bytes))

\* the white space String.prototype.trim() removes, of the characters modelled
IsSpace(c) == c \in {9, 10, 11, 12, 13, 32}

RECURSIVE trimStart(_)
trimStart(s) == IF s # << >> /\ IsSpace(Head(s)) THEN trimStart(Tail(s)) ELSE s

trim(s) == Reverse(trimStart(Reverse(trimStart(s))))

\* buf.indexOf('\n'), counted from 1; 0 when there is none
indexOfNewline(s) ==
  IF \E i \in DOMAIN s : s[i] = 10
    THEN CHOOSE i \in DOMAIN s : s[i] = 10 /\ \A j \in 1..(i - 1) : s[j] # 10
    ELSE 0

\* one pass of the while loop: the line up to the first newline is trimmed
\* and, unless empty, handed to the message handler
takeLine(buf, lines) ==
  LET nl == indexOfNewline(buf)
      line == trim(SubSeq(buf, 1, nl - 1))
  IN  [buf |-> SubSeq(buf, nl + 1, Len(buf)),
       lines |-> IF line # << >> THEN Append(lines, line) ELSE lines]

\* while ((nl = buf.indexOf('\n')) !== -1) ...
RECURSIVE takeLines(_, _)
takeLines(buf, lines) ==
  IF indexOfNewline(buf) = 0 THEN [buf |-> buf, lines |-> lines]
  ELSE LET r == takeLine(buf, lines) IN takeLines(r.buf, r.lines)

\* the byte streams of the framing specification: newline, space, 'a' and
\* the two bytes of U+00E9
StreamBytes == {10, 32, 97, 195, 169}

RECURSIVE Streams(_)
Streams(n) ==
  IF n = 0 THEN {<< >>}
  ELSE Streams(n - 1)
       \cup {Append(s, b) : s \in {t \in Streams(n - 1) : Len(t) = n - 1}, b \in StreamBytes}

InitFrame ==
  /\ program = "solo"
  /\ SoloInit
  /\ PoolState("null")
  /\ now = 0
  /\ spent = [lines |-> 0, poolMsgs |-> 0, drops |-> 0, polls |-> 0]
  /\ args = << >>
  /\ returned = NoCall
  /\ \E s \in Streams(MaxStreamLen) :
       reader = [stream |-> s, received |-> 0, buf |-> << >>, lines |-> << >>]

\* socket.on('data'): the next n bytes of the stream arrive as one chunk
onData(n) ==
  /\ n \in 1..(Len(reader.stream) - reader.received)
  /\ LET data == SubSeq(reader.stream, reader.received + 1, reader.received + n)
         r == takeLines(reader.buf \o toString(data), reader.lines)
     IN  reader' = [reader EXCEPT !.received = @ + n, !.buf = r.buf, !.lines = r.lines]
  /\ UNCHANGED << poolVars, soloVars, envVars, callVars >>

NextFrame == \E n \in 1..MaxStreamLen : onData(n)

SpecFrame == InitFrame /\ [][NextFrame]_vars

(***************************************************************************)
(* Properties.                                                             *)
(***************************************************************************)
\* the replies a connected miner got to its mining.subscribe
SubscribeResults(m) ==
  {miners[m].out[i].result : i \in {k \in DOMAIN miners[m].out :
      /\ miners[m].out[k].result[1] = "array"
      /\ Len(miners[m].out[k].result) = 4}}

\* C1: any two miners connected at the same time have been given different
\* extranonce1 values (checked with at most MaxAllocConcurrent miners
\* connected at the same time)
C1_DistinctExtranonce1 ==
  \A a \in DOMAIN miners, b \in DOMAIN miners :
    a # b => \A ra \in SubscribeResults(a), rb \in SubscribeResults(b) : ra[3] # rb[3]

\* every line written to the upstream socket so far
WrittenUp == upOut \o upQueued

\* C2: every mining.submit written to the pool carries the configured
\* upstream user, the miner's job_id, the byte miner.id & 0xFF followed by
\* the miner's extranonce2, the miner's ntime and the miner's nonce; the
\* worker name the miner sent is not in it
C2_SubmitParams ==
  \A i \in DOMAIN WrittenUp :
    WrittenUp[i].method = "mining.submit" =>
      /\ WrittenUp[i].id \in DOMAIN shares
      /\ LET sent == WrittenUp[i].params
             s == shares[WrittenUp[i].id]
         IN  /\ sent = <<UPSTREAM_USER, s.params[2], <<s.miner % ByteBase>> \o s.params[3],
                         s.params[4], s.params[5]>>
             /\ sent[1] # s.params[1]

C2_Witness ==
  \E i \in DOMAIN upOut :
    /\ upOut[i].method = "mining.submit"
    /\ shares[upOut[i].id].miner = 1

\* C3: a reply written because the pool answered a forwarded share is
\* written to the miner that submitted that share, carries the request id of
\* that miner's submit, and has result true exactly when the pool's result
\* is true (false otherwise)
C3_ShareReply ==
  \A m \in DOMAIN miners : \A i \in DOMAIN miners[m].out :
    LET o == miners[m].out[i]
        w == miners[m].why[i]
    IN  w.via # NullId =>
          /\ w.via \in DOMAIN shares
          /\ shares[w.via].miner = m
          /\ o.id = shares[w.via].line
          /\ o.result = (IF w.said = JTrue THEN JTrue ELSE JFalse)

C3_Witness ==
  \E m \in DOMAIN miners, n \in DOMAIN miners :
    /\ m # n
    /\ miners[n].pendingShares # << >>
    /\ \E i \in DOMAIN miners[m].out :
         miners[m].why[i].via # NullId /\ miners[m].out[i].result = JFalse

\* the positions of the responses (lines with a request id) written to miner m
Responses(m) == {i \in DOMAIN miners[m].out : miners[m].out[i].id # NullId}

Above(hash, target) ==
  \E i \in 1..TargetBytes :
    /\ hash[i] > target[i]
    /\ \A j \in (i + 1)..TargetBytes : hash[j] = target[j]

\* a handled mining.submit names the job that was current
ForCurrentJob(h) == parseInt16(h.jobId) = h.currentJobId

\* it came with a nonce while a template was present
HashKnown(h) == h.nonce # << >> /\ h.powHash # NullHash

\* Eaglesong of pow_hash || pad16(nonce)
HashOf(h) == ShareHash(h.powHash, padStart(strip0x(h.nonce), NonceBytes))

\* the submit_block requests issued for the share handled i-th
BlocksFor(i) == {k \in DOMAIN submitted : submitted[k].share = i}

\* C5: a mining.submit for the current job whose hash is at or below the
\* network target triggers exactly one submit_block request, carrying the
\* work_id and header fields of the template current when it was handled
C5_OneSubmitBlock ==
  \A i \in DOMAIN handled :
    LET h == handled[i]
    IN  (ForCurrentJob(h) /\ HashKnown(h) /\ ~Above(HashOf(h), h.targetLE)) =>
          /\ Cardinality(BlocksFor(i)) = 1
          /\ \A k \in BlocksFor(i) :
               LET tpl == h.template[1]
                   b == submitted[k]
               IN  /\ b.work_id = tpl.work_id
                   /\ b.header.compact_target = tpl.compact_target
                   /\ b.header.timestamp = tpl.current_time
                   /\ b.header.number = tpl.number
                   /\ b.header.parent_hash = tpl.parent_hash

\* C6: every share for the current job whose hash meets the network target
\* leads to a submit_block call and is not answered as a low-difficulty
\* rejection, whatever the miner's vardiff difficulty
C6_FoundBlockSubmitted ==
  \A i \in DOMAIN handled :
    LET h == handled[i]
    IN  (ForCurrentJob(h) /\ HashKnown(h) /\ ~Above(HashOf(h), h.targetLE)) =>
          /\ h.submitBlock = 1
          /\ h.reply.error # LowDifficulty

\* what C7 says of a mining.submit: answered true, no Eaglesong, no target
\* comparison, no submit_block
AckedUnvalidated(i) ==
  LET h == handled[i]
  IN  /\ h.reply = Reply(h.line, JTrue, JNull)
      /\ ~h.eaglesong
      /\ ~h.compared
      /\ h.submitBlock = 0
      /\ BlocksFor(i) = {}

\* C7 as stated: a mining.submit whose job_id differs from the current job
\* id (as written in mining.notify) is answered true without validation
C7_DifferentJobIdAcked ==
  \A i \in DOMAIN handled :
    handled[i].jobId # toString16(handled[i].currentJobId) => AckedUnvalidated(i)

\* C7: a mining.submit whose job_id, read as a hexadecimal number the way
\* parseInt(job_id, 16) reads it, differs from the current job id is
\* answered true without validation
C7_StaleJobAcked ==
  \A i \in DOMAIN handled : ~ForCurrentJob(handled[i]) => AckedUnvalidated(i)

C7_Witness ==
  \E i \in DOMAIN handled :
    /\ ~ForCurrentJob(handled[i])
    /\ handled[i].template # << >>
    /\ handled[i].currentJobId = 2

\* C8: for a mining.submit on the current job with a nonce and a template,
\* the reply is false with [23, "Low difficulty share", null] exactly when
\* the hash is above the local target of the miner's vardiff difficulty, and
\* true otherwise
C8_LowDifficultyReply ==
  \A i \in DOMAIN handled :
    LET h == handled[i]
    IN  (ForCurrentJob(h) /\ HashKnown(h)) =>
          h.reply = IF Above(HashOf(h), diffToTargetLE(h.diff))
                      THEN Reply(h.line, JFalse, LowDifficulty)
                      ELSE Reply(h.line, JTrue, JNull)

C8_Witness ==
  \E i \in DOMAIN handled :
    /\ ForCurrentJob(handled[i]) /\ HashKnown(handled[i])
    /\ handled[i].diff # SOLO_initialDiff
    /\ handled[i].reply.result = JFalse

\* C9: the reconnect delay is 2 s at the first close and at a close that
\* follows a successful connect, twice the previous delay at any other
\* close, and never above 60 s
C9_Backoff ==
  \A i \in DOMAIN delayLog :
    delayLog[i] # 0 =>
      /\ delayLog[i] <= MaxReconnectDelay
      /\ delayLog[i] = IF i = 1 \/ delayLog[i - 1] = 0
                         THEN InitialReconnectDelay
                         ELSE Min(2 * delayLog[i - 1], MaxReconnectDelay)

C9_Witness ==
  \E i \in DOMAIN delayLog :
    /\ delayLog[i] = MaxReconnectDelay
    /\ \E j \in DOMAIN delayLog :
         j > i + 1 /\ delayLog[j - 1] = 0 /\ delayLog[j] = InitialReconnectDelay

\* C10: every key of a connected miner's pendingShares is the id of exactly
\* one mining.submit written to the upstream socket
C10_PendingSharesWritten ==
  \A m \in DOMAIN miners : \A k \in DOMAIN miners[m].pendingShares :
    Cardinality({i \in DOMAIN WrittenUp :
                   WrittenUp[i].method = "mining.submit" /\ WrittenUp[i].id = k}) = 1

\* the ids of the mining.submit lines that reached the pool
SharesAtPool ==
  {upOut[i].id : i \in {k \in DOMAIN upOut : upOut[k].method = "mining.submit"}}

\* C11: once the close of the upstream socket has been handled (upstream is
\* null until the reconnect timer fires), no connected miner holds a
\* pendingShares entry for a share that was written on a closed connection
C11_PendingDroppedOnClose ==
  upstream = "null" =>
    \A m \in DOMAIN miners :
      DOMAIN miners[m].pendingShares \cap SharesAtPool = {}

\* the positions in upIn of successful responses matched to a pending
\* request of the given type
Succeeded(type) ==
  {i \in DOMAIN upIn : upIn[i].ctx = type /\ Truthy(upIn[i].result)}

\* the positions in upIn of failure responses of the upstream handshake
HandshakeFailures ==
  {i \in DOMAIN upIn : upIn[i].ctx \in {"subscribe", "authorize"} /\ ~Truthy(upIn[i].result)}

C13_HandshakeFailureCloses ==
  HandshakeFailures # {} => upstream # "open"

\* a step in which a get_block_template request settles, successfully or not
PollSucceeds == Len(templateRpcs') < Len(templateRpcs) /\ lastPoll'.ok

PollFails == Len(templateRpcs') < Len(templateRpcs) /\ ~lastPoll'.ok

\* the result's (work_id, parent_hash) differs from the current template's
DiffersFromCurrent(tpl) ==
  \/ currentTemplate = << >>
  \/ tpl.work_id # currentTemplate[1].work_id
  \/ tpl.parent_hash # currentTemplate[1].parent_hash

\* the step appends to the miner's output exactly one line, a mining.notify
\* of the new job id
NotifiedOfNewJob(m) ==
  /\ Len(miners'[m].out) = Len(miners[m].out) + 1
  /\ SubSeq(miners'[m].out, 1, Len(miners[m].out)) = miners[m].out
  /\ Last(miners'[m].out).method = "mining.notify"
  /\ Last(miners'[m].out).params[1] = toString16(currentJobId')

\* C14: a successful get_block_template result whose (work_id, parent_hash)
\* differs from the current template's adds one to currentJobId and sends a
\* mining.notify to the authorized miners; any other successful result
\* leaves currentJobId, currentPowHash, currentTargetLE and every miner
\* unchanged and changes the template in its current_time only
C14_NewTemplateBumpsJob ==
  [][PollSucceeds =>
       LET tpl == lastPoll'.tpl[1]
       IN  IF DiffersFromCurrent(tpl)
             THEN /\ currentJobId' = currentJobId + 1
                  /\ currentTemplate' = <<tpl>>
                  /\ \A m \in DOMAIN miners :
                       IF miners[m].authorized /\ miners[m].writable
                         THEN NotifiedOfNewJob(m)
                         ELSE miners'[m] = miners[m]
             ELSE /\ currentJobId' = currentJobId
                  /\ currentPowHash' = currentPowHash
                  /\ currentTargetLE' = currentTargetLE
                  /\ miners' = miners
                  /\ currentTemplate' =
                       <<[currentTemplate[1] EXCEPT !.current_time = tpl.current_time]>>]_vars

\* a second job was notified to an authorized miner, and a later result
\* for the same template refreshed its current_time only
C14_Witness ==
  /\ currentJobId = 2
  /\ lastPoll.ok
  /\ currentTemplate # << >>
  /\ lastPoll.tpl[1].current_time = currentTemplate[1].current_time
  /\ currentPowHash # computePowHash(templateToHeaderFields(currentTemplate[1]))
  /\ \E m \in DOMAIN miners :
       /\ miners[m].authorized
       /\ \E i \in DOMAIN miners[m].out :
            /\ miners[m].out[i].method = "mining.notify"
            /\ miners[m].out[i].params[1] = toString16(2)

\* C15: every failed poll adds one to nodeFailCount and leaves nodeHealthy
\* false, and every successful poll leaves nodeHealthy true
C15_NodeHealth ==
  [][/\ PollFails => nodeFailCount' = nodeFailCount + 1 /\ ~nodeHealthy'
     /\ PollSucceeds => nodeHealthy']_vars

\* C16: every connected miner's difficulty lies between minDiff and maxDiff
C16_DiffWithinBounds ==
  \A m \in DOMAIN miners :
    /\ VARDIFF_minDiff <= miners[m].vardiff.currentDiff
    /\ miners[m].vardiff.currentDiff <= VARDIFF_maxDiff

\* the miners connected before and after a step
Staying == DOMAIN miners \cap DOMAIN miners'

\* the step resets miner m's vardiff window
Retargets(m) ==
  \/ miners'[m].vardiff.lastRetarget # miners[m].vardiff.lastRetarget
  \/ miners'[m].vardiff.windowStart # miners[m].vardiff.windowStart
  \/ miners'[m].vardiff.sharesInWindow < miners[m].vardiff.sharesInWindow

\* the step handles a mining.submit of miner m
Submits(m) == miners'[m].sharesSubmitted > miners[m].sharesSubmitted

\* C17: a miner's vardiff window is reset only when at least retargetSec
\* have passed since its lastRetarget, and a share submitted earlier leaves
\* currentDiff, windowStart and lastRetarget unchanged
C17_NoEarlyRetarget ==
  [][\A m \in Staying :
       /\ Retargets(m) => now - miners[m].vardiff.lastRetarget >= VARDIFF_retargetSec
       /\ (Submits(m) /\ now - miners[m].vardiff.lastRetarget < VARDIFF_retargetSec) =>
            /\ miners'[m].vardiff.currentDiff = miners[m].vardiff.currentDiff
            /\ miners'[m].vardiff.windowStart = miners[m].vardiff.windowStart
            /\ miners'[m].vardiff.lastRetarget = miners[m].vardiff.lastRetarget]_vars

\* a miner was retargeted to another difficulty after an earlier share that
\* left its window alone
C17_Witness ==
  \E m \in DOMAIN miners :
    /\ miners[m].sharesSubmitted >= 2
    /\ miners[m].vardiff.lastRetarget >= VARDIFF_retargetSec
    /\ miners[m].vardiff.lastRetarget > miners[m].connectedAt
    /\ \E i \in DOMAIN miners[m].out :
         /\ miners[m].out[i].method = "mining.set_difficulty"
         /\ miners[m].why[i].line >= 3

\* C18: a retarget at the end of a window of N x targetShareSec seconds
\* (at least retargetSec) holding 2N shares multiplies currentDiff by a
\* factor between 1.5 and 2.0, or sets it to maxDiff
C18_TwiceTheSharesDoubles ==
  [][\A m \in Staying :
       LET vd == miners[m].vardiff
           windowSec == now - vd.windowStart
           count == vd.sharesInWindow + 1
           old == vd.currentDiff
           new == miners'[m].vardiff.currentDiff
       IN  (/\ Submits(m) /\ Retargets(m)
            /\ windowSec >= VARDIFF_retargetSec
            /\ count * VARDIFF_targetShareSec = 2 * windowSec) =>
             \/ 2 * new >= 3 * old /\ new <= 2 * old
             \/ new = VARDIFF_maxDiff]_vars

\* the step discards a line of miner m that does not parse
DiscardsMinerLine(m) == miners'[m].garbled # miners[m].garbled

\* the step discards a line of the pool that does not parse
DiscardsPoolLine == Len(upIn') > Len(upIn) /\ Last(upIn').ctx = "garbage"

\* C19: handling a line that is no JSON writes nothing to any miner or to
\* the pool and changes neither the miner's session nor the proxy's state;
\* the connection it arrived on stays open
C19_BadJsonDiscarded ==
  [][/\ \A m \in Staying :
          DiscardsMinerLine(m) =>
            /\ miners' = [miners EXCEPT ![m].linesIn = miners'[m].linesIn,
                                        ![m].last = miners'[m].last,
                                        ![m].garbled = miners'[m].garbled]
            /\ UNCHANGED << minerIdCounter, totals, upstream, upstreamReady,
                            reconnectDelay, reconnectTimers, poolExtranonce1,
                            poolExtranonce2Size, currentJob, currentTarget,
                            poolDifficulty, pendingUpstream, upstreamRequestId,
                            upQueued, upOut, currentTemplate, currentPowHash,
                            currentTargetLE, currentJobId, blockRpcs, program >>
     /\ DiscardsPoolLine =>
          /\ upstream' = "open"
          /\ UNCHANGED << minerIdCounter, miners, totals, upstreamReady,
                          reconnectDelay, reconnectTimers, poolExtranonce1,
                          poolExtranonce2Size, currentJob, currentTarget,
                          poolDifficulty, pendingUpstream, upstreamRequestId,
                          upQueued, upOut, program >>]_vars

\* after a line that did not parse, a later line of the same miner was
\* answered and a later response of the pool was handled
C19_Witness ==
  /\ \E m \in DOMAIN miners : \E k \in miners[m].garbled :
       \E i \in DOMAIN miners[m].why : miners[m].why[i].line > k
  /\ \E i, j \in DOMAIN upIn :
       i < j /\ upIn[i].ctx = "garbage" /\ upIn[j].ctx = "subscribe"

\* C20: the process keeps running, and every line of a connected miner that
\* parsed to a value with bad Stratum parameters was answered with an error
C20_BadParamsAnswered ==
  /\ program # "exited"
  /\ \A m \in DOMAIN miners : \A k \in miners[m].malformed :
       \E i \in DOMAIN miners[m].why :
         miners[m].why[i].line = k /\ miners[m].out[i].error # JNull

\* the step handles a mining.notify of the pool
HandlesPoolNotify ==
  /\ Len(upIn') = Len(upIn) + 1
  /\ Last(upIn').ctx = "none"
  /\ Last(upIn').method = "mining.notify"

\* C21: handling a mining.notify of the pool makes its params the current
\* job and writes one mining.notify with exactly those params to every
\* authorized miner whose socket is writable, and nothing to any other miner
C21_NotifyBroadcast ==
  [][HandlesPoolNotify =>
       LET params == Last(upIn').params
       IN  /\ currentJob' = params
           /\ DOMAIN miners' = DOMAIN miners
           /\ \A m \in DOMAIN miners :
                IF miners[m].authorized /\ miners[m].writable
                  THEN /\ miners'[m].out =
                            Append(miners[m].out, Notification("mining.notify", params))
                       /\ miners'[m] = [miners[m] EXCEPT !.out = miners'[m].out,
                                                          !.why = miners'[m].why]
                  ELSE miners'[m] = miners[m]]_vars

\* a job was announced while one miner was authorized and another was not
C21_Witness ==
  /\ currentJob # << >>
  /\ \E m, o \in DOMAIN miners :
       /\ miners[m].authorized
       /\ \E i \in DOMAIN miners[m].out :
            /\ miners[m].out[i] = Notification("mining.notify", currentJob)
            /\ miners[m].why[i].line = 0
       /\ ~miners[o].authorized
       /\ miners[o].out = << >>

\* the step handles a mining.authorize of miner m
HandlesAuthorize(m) ==
  /\ miners'[m].linesIn = miners[m].linesIn + 1
  /\ miners'[m].last = "mining.authorize"

\* what the step wrote to miner m
Written(m) == SubSeq(miners'[m].out, Len(miners[m].out) + 1, Len(miners'[m].out))

\* a target or difficulty, and a job, are known to the running proxy
TargetKnown ==
  IF program = "pool" THEN currentTarget # << >> \/ poolDifficulty # NullDiff
  ELSE currentTargetLE # << >>

JobKnown == IF program = "pool" THEN currentJob # << >> ELSE currentTemplate # << >>

\* C22: handling a mining.authorize makes the miner authorized and writes to
\* it, in this order: the reply true with the request's id, then
\* mining.set_target / mining.set_difficulty if a target or difficulty is
\* known (and none otherwise), then one mining.notify if a job exists (and
\* none otherwise)
C22_AuthorizeSequence ==
  [][\A m \in Staying :
       (HandlesAuthorize(m) /\ miners[m].writable) =>
         LET new == Written(m)
             n == Len(new)
             pushed == {i \in 2..n :
                          new[i].method \in {"mining.set_target", "mining.set_difficulty"}}
             notified == {i \in 2..n : new[i].method = "mining.notify"}
         IN  /\ miners'[m].authorized
             /\ n >= 1
             /\ new[1] = Reply(miners'[m].linesIn, JTrue, JNull)
             /\ pushed \cup notified = 2..n
             /\ \A i \in pushed, j \in notified : i < j
             /\ (pushed # {}) = TargetKnown
             /\ IF JobKnown THEN Cardinality(notified) = 1 ELSE notified = {}]_vars

\* an authorize was answered with the reply, a target or difficulty and the
\* current job
C22_Witness ==
  \E m \in DOMAIN miners :
    /\ miners[m].authorized
    /\ \E i, j, k \in DOMAIN miners[m].out :
         /\ i < j /\ j < k
         /\ miners[m].why[i].line > 0
         /\ miners[m].why[j].line = miners[m].why[i].line
         /\ miners[m].why[k].line = miners[m].why[i].line
         /\ miners[m].out[i].result = JTrue
         /\ miners[m].out[j].method \in {"mining.set_target", "mining.set_difficulty"}
         /\ miners[m].out[k].method = "mining.notify"

\* C23: every mining.submit handled was given an upstream request, and no
\* miner was answered by the proxy itself: no share was rejected as low
\* difficulty and none was accepted locally
C23_SharesForwardedUnvalidated ==
  /\ totals.sharesSubmitted = Cardinality(DOMAIN shares)
  /\ \A m \in DOMAIN miners :
       /\ miners[m].sharesLocalOnly = 0
       /\ \A i \in DOMAIN miners[m].out :
            miners[m].why[i].line > 0 => miners[m].out[i].error # LowDifficulty

\* C24: there is at most one pending reconnect timer, and none while there
\* is an upstream socket (connecting, open or ended but not yet closed); the
\* socket the proxy holds is the only one
C24_OneUpstream ==
  /\ Len(reconnectTimers) <= 1
  /\ upstream # "null" => reconnectTimers = << >>
  /\ upstream = "null" => ~upstreamReady /\ upQueued = << >>

\* connected again after several closes
C24_Witness ==
  /\ Closes >= 2
  /\ upstream = "open"
  /\ reconnectTimers = << >>

\* a - b on little-endian digit sequences of one length: the digits of the
\* difference modulo ByteBase^Len(a), then the borrow out of the top digit
RECURSIVE SubDigits(_, _, _)
SubDigits(a, b, borrow) ==
  IF a = << >> THEN << borrow >>
  ELSE LET v == Head(a) - Head(b) - borrow
       IN  << (v + ByteBase) % ByteBase >>
             \o SubDigits(Tail(a), Tail(b), IF v < 0 THEN 1 ELSE 0)

\* a <= b for 256-bit values given as little-endian bytes
LELessEq(a, b) == Last(SubDigits(b, a, 0)) = 0

\* C25: meetsTarget and meetsTargetLE return true exactly when the hash, as a
\* 256-bit little-endian unsigned integer, is at most the target read the
\* same way
C25_MeetsIffLessEq ==
  returned.fn \in {"meetsTarget", "meetsTargetLE"} =>
    (returned.value <=> LELessEq(args[1], args[2]))

\* a hash equal to the target has been compared and accepted
C25_Witness ==
  /\ returned.fn = "meetsTargetLE"
  /\ args[1] = LE256(1, 1, 0)
  /\ args[2] = args[1]
  /\ returned.value

\* 2^224 * 10^6, most significant digit first
ScaledDiff1 == BigMul(DIFF1_TARGET, MicroScale)

\* the value of a BigInt below 2^24
SmallValue(n) ==
  LET d == padStart(StripZeros(n), 3) IN (d[1] * ByteBase + d[2]) * ByteBase + d[3]

\* q = n \div k for BigInts n and q and a divisor k > 0: 0 <= n - q * k < k
IsQuotient(q, n, k) ==
  LET width == TargetBytes + 4
      diff == SubDigits(Reverse(padStart(StripZeros(n), width)),
                        Reverse(padStart(StripZeros(BigMul(q, k)), width)), 0)
      rem == StripZeros(Reverse(SubSeq(diff, 1, width)))
  IN  /\ Last(diff) = 0
      /\ Len(rem) <= 3
      /\ SmallValue(rem) < k

\* C26: for every positive difficulty d, diffToTargetLE(d) does not fail and
\* returns the 32 little-endian bytes of 2^224 * 10^6 divided by round(d * 10^6)
\* (the clamp to 2^256 - 1 never applies to a quotient of that size)
C26_DiffToTargetTotal ==
  (returned.fn = "diffToTargetLE" /\ args[1] > 0) =>
    /\ returned.value # RangeError
    /\ Len(returned.value) = TargetBytes
    /\ IsQuotient(Reverse(returned.value), ScaledDiff1, MathRoundMicro(args[1]))

\* 9e4452fc7aed93d7240b7b55263792befd1be09252b456401122ba71a56f62a0
DigestOfEmpty ==
  << 158, 68, 82, 252, 122, 237, 147, 215, 36, 11, 123, 85, 38, 55, 146, 190,
     253, 27, 224, 146, 82, 180, 86, 64, 17, 34, 186, 113, 165, 111, 98, 160 >>

\* a50a3310f78cbaeadcffe2d46262119eeeda9d6568b4df1b636399742c867aca
DigestOfOnes ==
  << 165, 10, 51, 16, 247, 140, 186, 234, 220, 255, 226, 212, 98, 98, 17, 158,
     238, 218, 157, 101, 104, 180, 223, 27, 99, 99, 153, 116, 44, 134, 122, 202 >>

\* C27: eaglesong returns the two required digests (of the empty input and of
\* 34 bytes '1' followed by a newline), and an input of L bytes is absorbed in
\* L \div 32 + 1 blocks, one permutation for each, the bytes absorbed being the
\* input followed by the delimiter 0x06 once, at byte index L
C27_EaglesongDigests ==
  returned.fn = "eaglesong" =>
    LET input == args[1] IN
    /\ input = << >> => returned.value = DigestOfEmpty
    /\ input = Ones(34) \o << 10 >> => returned.value = DigestOfOnes
    /\ returned.trace.blocks = (Len(input) \div 32) + 1
    /\ returned.trace.permutations = returned.trace.blocks
    /\ returned.trace.bytes = input \o << 6 >>

\* the second vector has been hashed, in two blocks
C27_Witness ==
  /\ returned.fn = "eaglesong"
  /\ args[1] = Ones(34) \o << 10 >>
  /\ returned.value = DigestOfOnes
  /\ returned.trace.blocks = 2

\* C28: whenever there is a template, the pow_hash announced to miners is
\* computePowHash of the header fields of the current template, so that the
\* header submitBlock builds (its timestamp included) is the one miners hashed
C28_PowHashOfCurrentTemplate ==
  currentTemplate # << >> =>
    currentPowHash = computePowHash(templateToHeaderFields(currentTemplate[1]))

\* C29: templates take effect in request order: once the response to a
\* request has been handled, the response to an earlier request neither
\* replaces or changes the current template nor bumps the job id nor
\* writes to any miner
C29_TemplatesInRequestOrder ==
  [][(PollSucceeds /\ lastPoll'.req < lastPoll.newest) =>
       UNCHANGED << currentTemplate, currentJobId, miners >>]_vars

\* the ids of the mining.submit messages of a sequence of upstream messages
RECURSIVE SubmitIds(_)
SubmitIds(msgs) ==
  IF msgs = << >> THEN << >>
  ELSE (IF Head(msgs).method = "mining.submit" THEN << Head(msgs).id >> ELSE << >>)
         \o SubmitIds(Tail(msgs))

Increasing(ids) == \A i, j \in DOMAIN ids : i < j => ids[i] < ids[j]

IsPrefix(s, t) == Len(s) <= Len(t) /\ SubSeq(t, 1, Len(s)) = s

\* C30: the mining.submit messages written to the pool (or waiting for the
\* connection to open) carry strictly increasing ids, what has been written
\* keeps its order, and a submission that is handled and forwarded comes
\* after all those forwarded before it
C30_SubmitsInOrder ==
  [][/\ IsPrefix(SubmitIds(upOut), SubmitIds(upOut'))
     /\ Increasing(SubmitIds(upOut' \o upQueued'))
     /\ \A upId \in DOMAIN shares' \ DOMAIN shares :
          shares'[upId].sent =>
            /\ Last(SubmitIds(upOut' \o upQueued')) = upId
            /\ \A i \in DOMAIN SubmitIds(upOut \o upQueued) :
                 SubmitIds(upOut \o upQueued)[i] < upId]_vars

\* two miners have each had a share written to the pool
C30_Witness ==
  /\ Len(SubmitIds(upOut)) >= 2
  /\ \E a, b \in DOMAIN shares : shares[a].miner # shares[b].miner

\* the lines written to miners because of the pool's answer to upstream id
RepliesTo(ms, upId) ==
  UNION {{<< m, i >> : i \in {k \in DOMAIN ms[m].out : ms[m].why[k].via = upId}} :
           m \in DOMAIN ms}

\* the pool message handled in this step
PoolMessageHandled == Len(upIn') = Len(upIn) + 1

\* C31: for each forwarded share at most one reply is written to a miner: the
\* first pool response with the share's upstream id goes to the miner holding
\* it and removes the pending entry; a later response with that id reaches
\* no miner and changes no share counter
C31_FirstResponseWins ==
  [][PoolMessageHandled =>
       LET msg == Last(upIn') IN
       /\ \A upId \in DOMAIN shares : Cardinality(RepliesTo(miners', upId)) <= 1
       /\ msg.ctx = "share" =>
            /\ Cardinality(RepliesTo(miners', msg.id)) = 1
            /\ \A m \in DOMAIN miners' : msg.id \notin DOMAIN miners'[m].pendingShares
       /\ (msg.ctx = "none" /\ msg.id \in DOMAIN shares) =>
            miners' = miners /\ totals' = totals]_vars

\* the pool has answered a forwarded share twice; the miner got one reply
C31_Witness ==
  \E i, j \in DOMAIN upIn :
    /\ i < j
    /\ upIn[i].ctx = "share"
    /\ upIn[j].id = upIn[i].id
    /\ upIn[j].ctx = "none"
    /\ Cardinality(RepliesTo(miners, upIn[i].id)) = 1

\* the step handles a mining.submit of miner m that is not accepted: it is
\* answered with an error, or (solo proxy) it names a job that is not current
SubmitNotAccepted(m) ==
  /\ Submits(m)
  /\ \/ /\ Len(miners'[m].out) > Len(miners[m].out)
        /\ Last(miners'[m].why).line > 0
        /\ Last(miners'[m].out).error \in {LowDifficulty, NoCurrentJob}
     \/ /\ program = "solo"
        /\ Len(handled') > Len(handled)
        /\ ~ForCurrentJob(Last(handled'))

\* C32: a submission that is rejected as low difficulty, answered as stale or
\* answered with 'No current job' does not increase the miner's
\* sharesInWindow
C32_WindowCountsAcceptedOnly ==
  [][\A m \in Staying :
       SubmitNotAccepted(m) =>
         miners'[m].vardiff.sharesInWindow <= miners[m].vardiff.sharesInWindow]_vars

\* the positions of the mining.notify lines written to a miner
Notifies(mr) == {i \in DOMAIN mr.out : mr.out[i].method = "mining.notify"}

\* the last mining.notify written to a miner that has had one
LastNotify(mr) ==
  mr.out[CHOOSE i \in Notifies(mr) : \A j \in Notifies(mr) : j <= i]

\* C33: solo proxy: whenever a template exists, the last mining.notify
\* written to every authorized miner whose socket is open carries the current
\* job id and the current pow_hash
C33_MinersOnCurrentJob ==
  (program = "solo" /\ currentTemplate # << >>) =>
    \A m \in DOMAIN miners :
      (miners[m].authorized /\ miners[m].writable) =>
        /\ Notifies(miners[m]) # {}
        /\ LastNotify(miners[m]).params[1] = toString16(currentJobId)
        /\ LastNotify(miners[m]).params[2] = currentPowHash

\* an authorized miner has been moved from the first job to the second
C33_Witness ==
  /\ program = "solo"
  /\ currentJobId = 2
  /\ \E m \in DOMAIN miners :
       /\ miners[m].authorized
       /\ miners[m].writable
       /\ Cardinality(Notifies(miners[m])) >= 2
       /\ LastNotify(miners[m]).params[1] = toString16(2)

\* C34: solo proxy: a mining.submit handled while no template has been
\* fetched is answered with [20, "No current job", null], never with true,
\* and no accepted counter has grown while there is no template
C34_NoJobBeforeTemplate ==
  /\ \A i \in DOMAIN handled :
       handled[i].template = << >> =>
         handled[i].reply = Reply(handled[i].line, JFalse, NoCurrentJob)
  /\ (program = "solo" /\ currentTemplate = << >>) =>
       /\ totals.sharesAccepted = 0
       /\ \A m \in DOMAIN miners : miners[m].sharesAccepted = 0

\* the step handles a mining.submit line of the solo proxy
SoloSubmitHandled == Len(handled') = Len(handled) + 1

\* C35: solo proxy: each mining.submit line handled adds exactly one to the
\* miner's sharesSubmitted and to totals.sharesSubmitted, whatever the
\* answer
C35_SubmittedCountsLines ==
  [][SoloSubmitHandled =>
       /\ totals'.sharesSubmitted = totals.sharesSubmitted + 1
       /\ \A m \in Staying :
            miners'[m].id = Last(handled').miner =>
              miners'[m].sharesSubmitted = miners[m].sharesSubmitted + 1]_vars

\* the positions of the mining.subscribe replies in what a miner was sent
SubscribeReplies(mr) ==
  {k \in DOMAIN mr.out : mr.out[k].result[1] = "array" /\ Len(mr.out[k].result) = 4}

\* the result of the last mining.subscribe reply a miner was sent
LastSubscribeResult(mr) ==
  mr.out[CHOOSE i \in SubscribeReplies(mr) : \A j \in SubscribeReplies(mr) : j <= i].result

\* C36: pool proxy: the extranonce1 and extranonce2_size a connected miner
\* was last given are the pool's current extranonce1 followed by the miner's
\* suffix byte and max(1, pool extranonce2_size - 1), at every state
C36_ExtranonceFollowsPool ==
  program = "pool" =>
    \A m \in DOMAIN miners :
      SubscribeReplies(miners[m]) # {} =>
        LET given == LastSubscribeResult(miners[m])
        IN  /\ given[3] = poolExtranonce1 \o <<miners[m].id % ByteBase>>
            /\ given[4] = Max(1, poolExtranonce2Size - 1)

\* C37: pool proxy: when a subscribed miner submits an extranonce2 of the
\* size its subscribe reply advertised and the pool's extranonce2_size is at
\* least 1, the extranonce2 of the mining.submit written to the pool has
\* exactly the pool's extranonce2_size bytes
C37_ForwardedEn2Size ==
  [][\A upId \in DOMAIN shares' \ DOMAIN shares :
       \A m \in DOMAIN miners :
         (/\ miners[m].id = shares'[upId].miner
          /\ SubscribeReplies(miners[m]) # {}
          /\ Len(shares'[upId].params[3]) = LastSubscribeResult(miners[m])[4]
          /\ poolExtranonce2Size >= 1)
         => \A i \in DOMAIN WrittenUp' :
              WrittenUp'[i].id = upId =>
                Len(WrittenUp'[i].params[3]) = poolExtranonce2Size]_vars

\* what the handler has done when the bytes arrived so far came as one chunk
InOneChunk == takeLines(toString(SubSeq(reader.stream, 1, reader.received)), << >>)

\* C38: however the bytes received so far were cut into chunks, the lines
\* handed to the message handler and the unterminated tail left in the read
\* buffer are those of the same bytes arriving as one chunk
C38_FramingIgnoresChunks ==
  /\ reader.lines = InOneChunk.lines
  /\ reader.buf = InOneChunk.buf

\* C39: pool proxy: every request written to the pool carries an id of at
\* least 100 below the counter, a request written later carries a greater
\* id than every request written before it, and no id is a key of
\* pendingUpstream and of a miner's pendingShares at once
C39_UpstreamIdsUnique ==
  program = "pool" =>
    /\ upstreamRequestId >= FirstUpstreamRequestId
    /\ \A i \in DOMAIN WrittenUp :
         /\ WrittenUp[i].id >= FirstUpstreamRequestId
         /\ WrittenUp[i].id < upstreamRequestId
         /\ \A j \in DOMAIN WrittenUp : i < j => WrittenUp[i].id < WrittenUp[j].id
    /\ \A m \in DOMAIN miners :
         DOMAIN miners[m].pendingShares \cap DOMAIN pendingUpstream = {}

\* two connections have subscribed, a share was forwarded, and both maps
\* hold an id
C39_Witness ==
  /\ Cardinality({i \in DOMAIN upOut : upOut[i].method = "mining.subscribe"}) = 2
  /\ \E i \in DOMAIN upOut : upOut[i].method = "mining.submit"
  /\ pendingUpstream # << >>
  /\ \E m \in DOMAIN miners : miners[m].pendingShares # << >>

\* C40: in both proxies, every miner's sharesAccepted + sharesRejected is at
\* most its sharesSubmitted, and totals.sharesAccepted +
\* totals.sharesRejected is at most totals.sharesSubmitted
C40_AnsweredAtMostSubmitted ==
  /\ \A m \in DOMAIN miners :
       miners[m].sharesAccepted + miners[m].sharesRejected <= miners[m].sharesSubmitted
  /\ totals.sharesAccepted + totals.sharesRejected <= totals.sharesSubmitted

\* the pool has accepted one share of a miner and rejected another, and all
\* its submits are answered
C40_Witness ==
  /\ program = "pool"
  /\ totals.sharesAccepted >= 1
  /\ totals.sharesRejected >= 1
  /\ \E m \in DOMAIN miners :
       /\ miners[m].sharesAccepted >= 1
       /\ miners[m].sharesRejected >= 1
       /\ miners[m].sharesAccepted + miners[m].sharesRejected = miners[m].sharesSubmitted

====
